---- MODULE Spec2Model ----
(***************************************************************************)
(* Lineage graph construction (lineage/graph.rs) and audit analysis        *)
(* (lineage/analysis.rs) of the semantic-tracer backend, as run by         *)
(* parse_project (commands.rs): the parsing stages fill the entity lists,  *)
(* the lists are handed to LineageBuilder::build, whose six loops run one  *)
(* entity at a time, and the finished graph is handed to                   *)
(* LineageAnalyzer::analyze.  The query commands (get_metric_lineage,      *)
(* get_impact_analysis, search_nodes) are run on a graph of their own.     *)
(*                                                                         *)
(* Strings are sequences of one-character strings, so that format!() is    *)
(* concatenation and two different name pairs can yield the same key.      *)
(* Option<T> is a sequence of length 0 (None) or 1 (Some).                 *)
(* An f64 score (n / d) * 100.0 is kept as the exact fraction <<100*n, d>>.*)
(* Result<T, E> is the pair <<"Ok", value>> or <<"Err", error>>.           *)
(***************************************************************************)
EXTENDS Integers, Sequences, FiniteSets, TLC

VARIABLES config, disk, rng, query,
          dbt_project, models, sources, semantic_models, metrics,
          nodes, edges, node_ids, audit, errors, warnings, success,
          visited, queue, relevant_node_ids,
          pc, idx, reply

vars == <<config, disk, rng, query,
          dbt_project, models, sources, semantic_models, metrics,
          nodes, edges, node_ids, audit, errors, warnings, success,
          visited, queue, relevant_node_ids,
          pc, idx, reply>>

\* What a command is called with: the configuration, what the parsers find
\* on disk, the state of the random generator behind Uuid::new_v4, and the
\* string argument of a query.
environment == <<config, disk, rng, query>>

\* The locals of a traversal loop (has_complete_lineage, get_metric_lineage,
\* get_impact_analysis) while it runs.
traversal == <<visited, queue, relevant_node_ids>>

(***************************************************************************)
(* Bounds of the explored inputs.                                          *)
(***************************************************************************)
MaxSources == 2
MaxModels == 2
MaxColumns == 2
MaxSemanticModels == 2
MaxMetrics == 2
MaxGraphNodes == 3
MaxGraphEdges == 2

(***************************************************************************)
(* Strings and options.                                                    *)
(***************************************************************************)
None == <<>>
Some(x) == <<x>>
IsSome(o) == Len(o) = 1
IsNone(o) == Len(o) = 0

Ok(v) == <<"Ok", v>>
Err(e) == <<"Err", e>>
IsOk(r) == r[1] = "Ok"
IsErr(r) == r[1] = "Err"

A == <<"a">>
AA == <<"a", ".", "a">>
Names == {A, AA}
EmptyStr == <<>>
D == <<"d">>
Descriptions == {None, Some(EmptyStr), Some(D)}

SeqUpTo(S, n) == UNION {[1..k -> S] : k \in 0..n}

Range(s) == {s[k] : k \in 1..Len(s)}

MapSeq(s, F(_)) == [k \in 1..Len(s) |-> F(s[k])]

RECURSIVE Flatten(_)
Flatten(ss) == IF Len(ss) = 0 THEN <<>> ELSE Head(ss) \o Flatten(Tail(ss))

\* Iterator::find: the position of the first element satisfying P, 0 if none.
FindFirst(s, P(_)) ==
    IF \E k \in 1..Len(s) : P(s[k])
    THEN CHOOSE k \in 1..Len(s) : P(s[k]) /\ \A j \in 1..(k - 1) : ~P(s[j])
    ELSE 0

Count(s, P(_)) == Cardinality({k \in 1..Len(s) : P(s[k])})

(***************************************************************************)
(* Resolution keys: format!("source.{}.{}", ..) and the like.              *)
(***************************************************************************)
Dot == <<".">>
source_key(source_name, name) == <<"source.">> \o source_name \o Dot \o name
model_key(name) == <<"model.">> \o name
entity_key(sm_name, name) == <<"entity.">> \o sm_name \o Dot \o name
measure_key(sm_name, name) == <<"measure.">> \o sm_name \o Dot \o name
dimension_key(sm_name, name) == <<"dimension.">> \o sm_name \o Dot \o name
metric_key(name) == <<"metric.">> \o name

(***************************************************************************)
(* LineageBuilder: b = [nodes, edges, node_ids].                           *)
(***************************************************************************)
NewBuilder(r) == [nodes |-> <<>>, edges |-> <<>>, node_ids |-> <<>>, rng |-> r]

\* The ids Uuid::new_v4() draws from (2^122 in the code).
UuidSpace == 101

\* Uuid::new_v4(): an id no node or edge of this build has yet; which one
\* depends on the random generator, not on the inputs.
NewUuid(b) == (b.rng * (Len(b.nodes) + Len(b.edges) + 1)) % UuidSpace

\* Fault: a key that is present keeps its id (C19 detects it).
MapInsert_KeepFirst(m, key, id) ==
    [k \in (DOMAIN m) \cup {key} |-> IF k \in DOMAIN m THEN m[k] ELSE id]

\* HashMap::insert: a later insert under the same key replaces the id.
MapInsert(m, key, id) ==
    [k \in (DOMAIN m) \cup {key} |-> IF k = key THEN id ELSE m[k]]

\* HashMap::get(..).cloned()
MapGet(m, key) == IF key \in DOMAIN m THEN Some(m[key]) ELSE None

LineageNode(id, node_type, name, description) ==
    [id |-> id, node_type |-> node_type, name |-> name, description |-> description]

LineageEdge(id, source, target, edge_type, label) ==
    [id |-> id, source |-> source, target |-> target,
     edge_type |-> edge_type, label |-> label]

PushNode(b, key, node_type, name, description) ==
    [b EXCEPT !.nodes = Append(@, LineageNode(NewUuid(b), node_type, name, description)),
              !.node_ids = MapInsert(@, key, NewUuid(b))]

\* Fault: the edge is pushed although the lookup failed (C1 detects it).
PushEdgeIfResolved_Dangling(b, source, target_key, edge_type, label) ==
    LET t == MapGet(b.node_ids, target_key) IN
    [b EXCEPT !.edges =
        Append(@, LineageEdge(NewUuid(b), source,
                              IF IsSome(t) THEN t[1] ELSE 0, edge_type, label))]

\* if let Some(target) = node_ids.get(target_key) { edges.push(..) }
PushEdgeIfResolved(b, source, target_key, edge_type, label) ==
    LET t == MapGet(b.node_ids, target_key) IN
    IF IsSome(t)
    THEN [b EXCEPT !.edges =
             Append(@, LineageEdge(NewUuid(b), source, t[1], edge_type, label))]
    ELSE b

add_source_node(b, source) ==
    PushNode(b, source_key(source.source_name, source.name),
             "Source", source.name, source.description)

add_model_node(b, model) ==
    PushNode(b, model_key(model.name), "Model", model.name, model.description)

RECURSIVE add_ref_edges(_, _, _)
add_ref_edges(b, model_id, refs) ==
    IF Len(refs) = 0 THEN b
    ELSE add_ref_edges(
            PushEdgeIfResolved(b, model_id, model_key(Head(refs)),
                               "ModelToModel", Some(<<"ref">>)),
            model_id, Tail(refs))

RECURSIVE add_source_edges(_, _, _)
add_source_edges(b, model_id, srefs) ==
    IF Len(srefs) = 0 THEN b
    ELSE add_source_edges(
            PushEdgeIfResolved(b, model_id,
                               source_key(Head(srefs).source_name, Head(srefs).table_name),
                               "ModelToSource", Some(<<"source">>)),
            model_id, Tail(srefs))

add_model_edges(b, model) ==
    LET model_id == MapGet(b.node_ids, model_key(model.name)) IN
    IF IsNone(model_id) THEN b
    ELSE add_source_edges(add_ref_edges(b, model_id[1], model.refs),
                          model_id[1], model.sources)

\* Fault: the entity node is pushed without its edge to the model (C20
\* detects it).
add_entity_NoEdge(b, sm, entity) ==
    PushNode(b, entity_key(sm.name, entity.name),
             "Entity", entity.name, entity.description)

\* One iteration of `for entity in &sm.entities`.
add_entity(b, sm, entity) ==
    LET id == NewUuid(b)
        b1 == PushNode(b, entity_key(sm.name, entity.name),
                       "Entity", entity.name, entity.description)
    IN PushEdgeIfResolved(b1, id, model_key(sm.model), "EntityToModel", None)

\* sm.entities.iter().find(|e| e.entity_type == "primary")
IsPrimary(e) == e.entity_type = "primary"
primary_entity(sm) ==
    LET k == FindFirst(sm.entities, IsPrimary)
    IN IF k = 0 THEN None ELSE Some(sm.entities[k])

\* Fault: the measure or dimension is wired to the model of the semantic
\* model instead of its primary entity (C28 detects it).
add_attached_ToModel(b, sm, item, key, node_type, edge_type) ==
    LET id == NewUuid(b)
        b1 == PushNode(b, key, node_type, item.name, item.description)
    IN PushEdgeIfResolved(b1, id, model_key(sm.model), edge_type, None)

\* One iteration of `for measure in &sm.measures` / `for dim in &sm.dimensions`.
add_attached(b, sm, item, key, node_type, edge_type) ==
    LET id == NewUuid(b)
        b1 == PushNode(b, key, node_type, item.name, item.description)
        pe == primary_entity(sm)
    IN IF IsSome(pe)
       THEN PushEdgeIfResolved(b1, id, entity_key(sm.name, pe[1].name), edge_type, None)
       ELSE b1

add_measure(b, sm, measure) ==
    add_attached(b, sm, measure, measure_key(sm.name, measure.name),
                 "Measure", "MeasureToEntity")

add_dimension(b, sm, dim) ==
    add_attached(b, sm, dim, dimension_key(sm.name, dim.name),
                 "Dimension", "DimensionToEntity")

RECURSIVE add_entities(_, _, _)
add_entities(b, sm, es) ==
    IF Len(es) = 0 THEN b ELSE add_entities(add_entity(b, sm, Head(es)), sm, Tail(es))

RECURSIVE add_measures(_, _, _)
add_measures(b, sm, ms) ==
    IF Len(ms) = 0 THEN b ELSE add_measures(add_measure(b, sm, Head(ms)), sm, Tail(ms))

RECURSIVE add_dimensions(_, _, _)
add_dimensions(b, sm, ds) ==
    IF Len(ds) = 0 THEN b ELSE add_dimensions(add_dimension(b, sm, Head(ds)), sm, Tail(ds))

add_semantic_model_nodes(b, sm) ==
    add_dimensions(add_measures(add_entities(b, sm, sm.entities), sm, sm.measures),
                   sm, sm.dimensions)

add_metric_node(b, metric) ==
    PushNode(b, metric_key(metric.name), "Metric", metric.name, metric.description)

\* for sm in semantic_models { if let Some(id) = get(measure key) { push; break } }
RECURSIVE link_to_measure(_, _, _, _)
link_to_measure(b, metric_id, measure_name, sms) ==
    IF Len(sms) = 0 THEN b
    ELSE LET t == MapGet(b.node_ids, measure_key(Head(sms).name, measure_name)) IN
         IF IsSome(t)
         THEN [b EXCEPT !.edges =
                  Append(@, LineageEdge(NewUuid(b), metric_id, t[1], "MetricToMeasure", None))]
         ELSE link_to_measure(b, metric_id, measure_name, Tail(sms))

\* Fault: the loop over the references ends at the first one that does not
\* resolve (C23 detects it).
RECURSIVE link_until_unresolved(_, _, _)
link_until_unresolved(b, metric_id, metric_refs) ==
    IF Len(metric_refs) = 0 THEN b
    ELSE IF IsNone(MapGet(b.node_ids, metric_key(Head(metric_refs).name))) THEN b
         ELSE link_until_unresolved(
                 PushEdgeIfResolved(b, metric_id, metric_key(Head(metric_refs).name),
                                    "MetricToMetric", Head(metric_refs).offset_window),
                 metric_id, Tail(metric_refs))

link_to_metrics_UntilUnresolved(b, metric_id, metric_refs) ==
    link_until_unresolved(b, metric_id, metric_refs)

RECURSIVE link_to_metrics(_, _, _)
link_to_metrics(b, metric_id, metric_refs) ==
    IF Len(metric_refs) = 0 THEN b
    ELSE link_to_metrics(
            PushEdgeIfResolved(b, metric_id, metric_key(Head(metric_refs).name),
                               "MetricToMetric", Head(metric_refs).offset_window),
            metric_id, Tail(metric_refs))

add_metric_edges(b, metric, sms) ==
    LET metric_id == MapGet(b.node_ids, metric_key(metric.name)) IN
    IF IsNone(metric_id) THEN b
    ELSE IF metric.metric_type \in {"simple", "cumulative"}
         THEN IF IsSome(metric.type_params.measure)
              THEN link_to_measure(b, metric_id[1], metric.type_params.measure[1], sms)
              ELSE b
         ELSE IF metric.metric_type = "derived"
              THEN IF IsSome(metric.type_params.metrics)
                   THEN link_to_metrics(b, metric_id[1], metric.type_params.metrics[1])
                   ELSE b
              ELSE b

\* The six loops of build.
RECURSIVE add_source_nodes(_, _)
add_source_nodes(b, srcs) ==
    IF Len(srcs) = 0 THEN b
    ELSE add_source_nodes(add_source_node(b, Head(srcs)), Tail(srcs))

RECURSIVE add_model_nodes(_, _)
add_model_nodes(b, ms) ==
    IF Len(ms) = 0 THEN b
    ELSE add_model_nodes(add_model_node(b, Head(ms)), Tail(ms))

RECURSIVE add_all_model_edges(_, _)
add_all_model_edges(b, ms) ==
    IF Len(ms) = 0 THEN b
    ELSE add_all_model_edges(add_model_edges(b, Head(ms)), Tail(ms))

RECURSIVE add_all_semantic_model_nodes(_, _)
add_all_semantic_model_nodes(b, sms) ==
    IF Len(sms) = 0 THEN b
    ELSE add_all_semantic_model_nodes(add_semantic_model_nodes(b, Head(sms)), Tail(sms))

RECURSIVE add_metric_nodes(_, _)
add_metric_nodes(b, mets) ==
    IF Len(mets) = 0 THEN b
    ELSE add_metric_nodes(add_metric_node(b, Head(mets)), Tail(mets))

RECURSIVE add_all_metric_edges(_, _, _)
add_all_metric_edges(b, mets, sms) ==
    IF Len(mets) = 0 THEN b
    ELSE add_all_metric_edges(add_metric_edges(b, Head(mets), sms), Tail(mets), sms)

\* LineageBuilder::build in one go, from builder b on.
build(b, ms, srcs, sms, mets) ==
    LET b1 == add_source_nodes(b, srcs)
        b2 == add_model_nodes(b1, ms)
        b3 == add_all_model_edges(b2, ms)
        b4 == add_all_semantic_model_nodes(b3, sms)
        b5 == add_metric_nodes(b4, mets)
        b6 == add_all_metric_edges(b5, mets, sms)
    IN [nodes |-> b6.nodes, edges |-> b6.edges]

(***************************************************************************)
(* LineageAnalyzer.                                                        *)
(***************************************************************************)
LineageGraph(ns, es) == [nodes |-> ns, edges |-> es]

AuditIssue(severity, issue_type, message, node_id) ==
    [severity |-> severity, issue_type |-> issue_type,
     message |-> message, node_id |-> node_id]

\* .filter(|node| node.description.is_none())
LacksDescription(n) == IsNone(n.description)

\* Fault: the Model arm of the match is missing (C10 detects it).
MissingDescriptionSeverity_MetricOnly(node_type) ==
    IF node_type = "Metric" THEN "Warning" ELSE "Info"

MissingDescriptionSeverity(node_type) ==
    IF node_type \in {"Metric", "Model"} THEN "Warning" ELSE "Info"

MissingDescriptionIssue(n) ==
    AuditIssue(MissingDescriptionSeverity(n.node_type), "MissingDescription",
               <<n.node_type, n.name>>, Some(n.id))

\* Fault: the nodes are walked in the order of their ids, as if they were
\* kept in a map keyed by id (C16 detects it).
RECURSIVE SortedById(_)
SortedById(S) ==
    IF S = {} THEN <<>>
    ELSE LET least == CHOOSE n \in S : \A other \in S : n.id <= other.id
         IN <<least>> \o SortedById(S \ {least})

check_missing_descriptions_ByIdOrder(graph) ==
    MapSeq(SelectSeq(SortedById(Range(graph.nodes)), LacksDescription),
           MissingDescriptionIssue)

check_missing_descriptions(graph) ==
    MapSeq(SelectSeq(graph.nodes, LacksDescription), MissingDescriptionIssue)

\* graph.nodes.iter().find(|n| n.id == e.target && n.node_type == Model)
TargetModel(graph, e) ==
    LET Hit(n) == n.id = e.target /\ n.node_type = "Model"
    IN FindFirst(graph.nodes, Hit)

referenced_models(graph) ==
    {graph.nodes[TargetModel(graph, e)].name :
        e \in {x \in Range(graph.edges) : TargetModel(graph, x) # 0}}

\* Fault: only edges that start at an Entity node count as references (C5
\* detects it).
check_orphaned_models_EntityOnly(graph, ms) ==
    LET FromEntity(e) ==
            \E k \in 1..Len(graph.nodes) :
                graph.nodes[k].id = e.source /\ graph.nodes[k].node_type = "Entity"
        referenced ==
            {graph.nodes[TargetModel(graph, e)].name :
                e \in {x \in Range(graph.edges) :
                          TargetModel(graph, x) # 0 /\ FromEntity(x)}}
        Unreferenced(m) == m.name \notin referenced
        NodeIdOf(m) ==
            LET Hit(n) == n.name = m.name /\ n.node_type = "Model"
                k == FindFirst(graph.nodes, Hit)
            IN IF k = 0 THEN None ELSE Some(graph.nodes[k].id)
        IssueOf(m) == AuditIssue("Info", "OrphanedModel", <<m.name>>, NodeIdOf(m))
    IN MapSeq(SelectSeq(ms, Unreferenced), IssueOf)

check_orphaned_models(graph, ms) ==
    LET Unreferenced(m) == m.name \notin referenced_models(graph)
        NodeIdOf(m) ==
            LET Hit(n) == n.name = m.name /\ n.node_type = "Model"
                k == FindFirst(graph.nodes, Hit)
            IN IF k = 0 THEN None ELSE Some(graph.nodes[k].id)
        IssueOf(m) == AuditIssue("Info", "OrphanedModel", <<m.name>>, NodeIdOf(m))
    IN MapSeq(SelectSeq(ms, Unreferenced), IssueOf)

\* Fault: a metric counts as connected when an edge points at it (C3 detects
\* it).
check_orphaned_metrics_ByTarget(graph, mets) ==
    LET metric_node_ids == {n.id : n \in {x \in Range(graph.nodes) : x.node_type = "Metric"}}
        connected_metrics ==
            {e.target : e \in {x \in Range(graph.edges) : x.target \in metric_node_ids}}
        Orphaned(n) == n.node_type = "Metric" /\ n.id \notin connected_metrics
        IssueOf(n) == AuditIssue("Error", "OrphanedMetric", <<n.name>>, Some(n.id))
    IN MapSeq(SelectSeq(graph.nodes, Orphaned), IssueOf)

check_orphaned_metrics(graph, mets) ==
    LET metric_node_ids == {n.id : n \in {x \in Range(graph.nodes) : x.node_type = "Metric"}}
        connected_metrics ==
            {e.source : e \in {x \in Range(graph.edges) : x.source \in metric_node_ids}}
        Orphaned(n) == n.node_type = "Metric" /\ n.id \notin connected_metrics
        IssueOf(n) == AuditIssue("Error", "OrphanedMetric", <<n.name>>, Some(n.id))
    IN MapSeq(SelectSeq(graph.nodes, Orphaned), IssueOf)

\* format!("{}.{}", source_name, name)
source_ref_key(source_name, name) == source_name \o Dot \o name

check_missing_sources(ms, srcs) ==
    LET source_names == {source_ref_key(s.source_name, s.name) : s \in Range(srcs)}
        Missing(r) == source_ref_key(r.source_name, r.table_name) \notin source_names
        OfModel(m) ==
            LET IssueOf(r) ==
                    AuditIssue("Error", "MissingSource",
                               <<m.name, source_ref_key(r.source_name, r.table_name)>>, None)
            IN MapSeq(SelectSeq(m.sources, Missing), IssueOf)
    IN Flatten(MapSeq(ms, OfModel))

check_undocumented_columns(ms) ==
    LET Undocumented(c) == IsNone(c.description)
        OfModel(m) ==
            LET IssueOf(c) ==
                    AuditIssue("Info", "UndocumentedColumn", <<c.name, m.name>>, None)
            IN MapSeq(SelectSeq(m.columns, Undocumented), IssueOf)
    IN Flatten(MapSeq(ms, OfModel))

\* Fault: any() in place of all() (C7 detects it).
SomeColumnUntested(m) == \E k \in 1..Len(m.columns) : Len(m.columns[k].tests) = 0

\* m.columns.iter().all(|c| c.tests.is_empty())
AllColumnsUntested(m) == \A k \in 1..Len(m.columns) : Len(m.columns[k].tests) = 0

check_models_without_tests(ms) ==
    LET IssueOf(m) == AuditIssue("Warning", "NoTests", <<m.name>>, None)
    IN MapSeq(SelectSeq(ms, AllColumnsUntested), IssueOf)

RECURSIVE SumLens(_)
SumLens(ss) == IF Len(ss) = 0 THEN 0 ELSE Len(Head(ss)) + SumLens(Tail(ss))

\* Fault: orphaned_models counts the models no semantic model is built on,
\* not the orphaned-model issues (C27 detects it).
calculate_summary_Uncovered(ms, srcs, sms, mets, issues) ==
    LET Documented(x) == IsSome(x.description)
        Tested(m) == \E k \in 1..Len(m.columns) : Len(m.columns[k].tests) # 0
        Uncovered(m) == \A j \in 1..Len(sms) : sms[j].model # m.name
        MeasuresOf(sm) == sm.measures
    IN [total_metrics |-> Len(mets),
        total_measures |-> SumLens(MapSeq(sms, MeasuresOf)),
        total_models |-> Len(ms),
        total_sources |-> Len(srcs),
        documented_metrics |-> Count(mets, Documented),
        documented_models |-> Count(ms, Documented),
        tested_models |-> Count(ms, Tested),
        orphaned_models |-> Count(ms, Uncovered)]

calculate_summary(ms, srcs, sms, mets, issues) ==
    LET Documented(x) == IsSome(x.description)
        Tested(m) == \E k \in 1..Len(m.columns) : Len(m.columns[k].tests) # 0
        IsOrphanedModel(i) == i.issue_type = "OrphanedModel"
        MeasuresOf(sm) == sm.measures
    IN [total_metrics |-> Len(mets),
        total_measures |-> SumLens(MapSeq(sms, MeasuresOf)),
        total_models |-> Len(ms),
        total_sources |-> Len(srcs),
        documented_metrics |-> Count(mets, Documented),
        documented_models |-> Count(ms, Documented),
        tested_models |-> Count(ms, Tested),
        orphaned_models |-> Count(issues, IsOrphanedModel)]

\* The f64 value (n as f64 / d as f64) * 100.0; d = 0 stands for NaN.
Percent(n, d) == <<100 * n, d>>
Hundred == <<100, 1>>

\* The `while let Some(current) = queue.pop()` loop of has_complete_lineage.
RECURSIVE lineage_loop(_, _, _)
lineage_loop(graph, visited_in, queue_in) ==
    IF Len(queue_in) = 0 THEN FALSE
    ELSE LET current == queue_in[Len(queue_in)]
             rest == SubSeq(queue_in, 1, Len(queue_in) - 1)
         IN IF current \in visited_in THEN lineage_loop(graph, visited_in, rest)
            ELSE LET seen == visited_in \cup {current}
                     IsCurrent(n) == n.id = current
                     k == FindFirst(graph.nodes, IsCurrent)
                     Out(e) == e.source = current /\ e.target \notin seen
                     TargetOf(e) == e.target
                 IN IF k # 0 /\ graph.nodes[k].node_type = "Source" THEN TRUE
                    ELSE lineage_loop(graph, seen,
                            rest \o MapSeq(SelectSeq(graph.edges, Out), TargetOf))

\* Fault: only the start node and its direct targets are looked at (C2
\* detects it).
has_complete_lineage_Direct(graph, start_id) ==
    LET IsSourceId(id) ==
            \E k \in 1..Len(graph.nodes) :
                graph.nodes[k].id = id /\ graph.nodes[k].node_type = "Source"
    IN \/ IsSourceId(start_id)
       \/ \E k \in 1..Len(graph.edges) :
             graph.edges[k].source = start_id /\ IsSourceId(graph.edges[k].target)

has_complete_lineage(graph, start_id) == lineage_loop(graph, {}, <<start_id>>)

calculate_completeness_score(graph, mets, sms) ==
    IF Len(mets) = 0 THEN Hundred
    ELSE LET IsMetric(n) == n.node_type = "Metric"
             metric_nodes == SelectSeq(graph.nodes, IsMetric)
             Complete(m) == has_complete_lineage(graph, m.id)
         IN Percent(Count(metric_nodes, Complete), Len(metric_nodes))

\* Fault: an empty description does not count as documentation (C8 detects
\* it).
calculate_documentation_coverage_NonEmpty(graph) ==
    IF Len(graph.nodes) = 0 THEN Hundred
    ELSE LET Documented(n) == IsSome(n.description) /\ n.description[1] # EmptyStr
         IN Percent(Count(graph.nodes, Documented), Len(graph.nodes))

calculate_documentation_coverage(graph) ==
    IF Len(graph.nodes) = 0 THEN Hundred
    ELSE LET Documented(n) == IsSome(n.description)
         IN Percent(Count(graph.nodes, Documented), Len(graph.nodes))

\* Fault: the semantic model's own name is taken for its model field (C9
\* detects it).
calculate_model_coverage_ByName(ms, sms) ==
    IF Len(ms) = 0 THEN Hundred
    ELSE LET semantic_refs == {sm.name : sm \in Range(sms)}
             Used(m) == m.name \in semantic_refs
         IN Percent(Count(ms, Used), Len(ms))

calculate_model_coverage(ms, sms) ==
    IF Len(ms) = 0 THEN Hundred
    ELSE LET semantic_refs == {sm.model : sm \in Range(sms)}
             Used(m) == m.name \in semantic_refs
         IN Percent(Count(ms, Used), Len(ms))

\* Fault: the checks that raise errors run first (C11 detects it).
analyze_ErrorsFirst(graph, ms, srcs, sms, mets) ==
    LET issues == check_orphaned_metrics(graph, mets)
                  \o check_missing_sources(ms, srcs)
                  \o check_missing_descriptions(graph)
                  \o check_orphaned_models(graph, ms)
                  \o check_undocumented_columns(ms)
                  \o check_models_without_tests(ms)
    IN [completeness_score |-> calculate_completeness_score(graph, mets, sms),
        documentation_coverage |-> calculate_documentation_coverage(graph),
        model_coverage |-> calculate_model_coverage(ms, sms),
        issues |-> issues,
        summary |-> calculate_summary(ms, srcs, sms, mets, issues)]

analyze(graph, ms, srcs, sms, mets) ==
    LET issues == check_missing_descriptions(graph)
                  \o check_orphaned_models(graph, ms)
                  \o check_orphaned_metrics(graph, mets)
                  \o check_missing_sources(ms, srcs)
                  \o check_undocumented_columns(ms)
                  \o check_models_without_tests(ms)
    IN [completeness_score |-> calculate_completeness_score(graph, mets, sms),
        documentation_coverage |-> calculate_documentation_coverage(graph),
        model_coverage |-> calculate_model_coverage(ms, sms),
        issues |-> issues,
        summary |-> calculate_summary(ms, srcs, sms, mets, issues)]

\* ParseResult::default().audit
DefaultAudit ==
    [completeness_score |-> <<0, 1>>,
     documentation_coverage |-> <<0, 1>>,
     model_coverage |-> <<0, 1>>,
     issues |-> <<>>,
     summary |-> [total_metrics |-> 0, total_measures |-> 0, total_models |-> 0,
                  total_sources |-> 0, documented_metrics |-> 0,
                  documented_models |-> 0, tested_models |-> 0, orphaned_models |-> 0]]

(***************************************************************************)
(* The query commands (commands.rs).  graph is parse_result.lineage; the   *)
(* ParseResult they return is ParseResult::default() but for success and   *)
(* lineage.                                                                *)
(***************************************************************************)
FilteredResult(ns, es) == [success |-> TRUE, lineage |-> LineageGraph(ns, es)]

\* The filter of nodes by relevant_node_ids and of edges by both endpoints.
filter_graph(graph, relevant) ==
    LET Relevant(n) == n.id \in relevant
        Inside(e) == e.source \in relevant /\ e.target \in relevant
    IN FilteredResult(SelectSeq(graph.nodes, Relevant), SelectSeq(graph.edges, Inside))

\* Fault: one pass over the edge list instead of a traversal (C13 detects
\* it).
RECURSIVE single_pass(_, _)
single_pass(es, visited_in) ==
    IF Len(es) = 0 THEN visited_in
    ELSE single_pass(Tail(es),
                     IF Head(es).source \in visited_in
                     THEN visited_in \cup {Head(es).target}
                     ELSE visited_in)

upstream_loop_SinglePass(graph, visited_in, queue_in) ==
    single_pass(graph.edges, visited_in \cup Range(queue_in))

\* The `while let Some(current) = queue.pop()` loop of get_metric_lineage;
\* the value is relevant_node_ids when the queue has run empty.
RECURSIVE upstream_loop(_, _, _)
upstream_loop(graph, visited_in, queue_in) ==
    IF Len(queue_in) = 0 THEN visited_in
    ELSE LET current == queue_in[Len(queue_in)]
             rest == SubSeq(queue_in, 1, Len(queue_in) - 1)
         IN IF current \in visited_in THEN upstream_loop(graph, visited_in, rest)
            ELSE LET seen == visited_in \cup {current}
                     Out(e) == e.source = current /\ e.target \notin seen
                     TargetOf(e) == e.target
                 IN upstream_loop(graph, seen,
                        rest \o MapSeq(SelectSeq(graph.edges, Out), TargetOf))

\* Fault: the first node of the name is taken, whatever its type (C12
\* detects it).
find_metric_node_AnyType(graph, metric_name) ==
    LET Hit(n) == n.name = metric_name IN FindFirst(graph.nodes, Hit)

\* .find(|n| n.name == metric_name && n.node_type == Metric)
find_metric_node(graph, metric_name) ==
    LET Hit(n) == n.name = metric_name /\ n.node_type = "Metric"
    IN FindFirst(graph.nodes, Hit)

get_metric_lineage(graph, metric_name) ==
    LET k == find_metric_node(graph, metric_name) IN
    IF k = 0 THEN Err(<<"Metric '", metric_name, "' not found">>)
    ELSE Ok(filter_graph(graph, upstream_loop(graph, {}, <<graph.nodes[k].id>>)))

\* Fault: the edges are followed from source to target, as in
\* get_metric_lineage (C14 detects it).
downstream_loop_Forward(graph, visited_in, queue_in) == upstream_loop(graph, visited_in, queue_in)

\* The `while let Some(current) = queue.pop()` loop of get_impact_analysis.
RECURSIVE downstream_loop(_, _, _)
downstream_loop(graph, visited_in, queue_in) ==
    IF Len(queue_in) = 0 THEN visited_in
    ELSE LET current == queue_in[Len(queue_in)]
             rest == SubSeq(queue_in, 1, Len(queue_in) - 1)
         IN IF current \in visited_in THEN downstream_loop(graph, visited_in, rest)
            ELSE LET seen == visited_in \cup {current}
                     In(e) == e.target = current /\ e.source \notin seen
                     SourceOf(e) == e.source
                 IN downstream_loop(graph, seen,
                        rest \o MapSeq(SelectSeq(graph.edges, In), SourceOf))

\* Fault: only a Metric node is found by its name (C29 detects it).
find_node_MetricOnly(graph, node_name) ==
    LET Hit(n) == n.name = node_name /\ n.node_type = "Metric"
    IN FindFirst(graph.nodes, Hit)

\* .find(|n| n.name == node_name)
find_node(graph, node_name) ==
    LET Hit(n) == n.name = node_name IN FindFirst(graph.nodes, Hit)

get_impact_analysis(graph, node_name) ==
    LET k == find_node(graph, node_name) IN
    IF k = 0 THEN Err(<<"Node '", node_name, "' not found">>)
    ELSE Ok(filter_graph(graph, downstream_loop(graph, {}, <<graph.nodes[k].id>>)))

\* char::to_lowercase on the letters of the explored strings.
lower_char(c) ==
    CASE c = "A" -> "a"
      [] c = "B" -> "b"
      [] OTHER -> c

\* str::to_lowercase
to_lowercase(str) == MapSeq(str, lower_char)

\* str::contains(&str)
contains(str, pat) ==
    \E i \in 0..(Len(str) - Len(pat)) : SubSeq(str, i + 1, i + Len(pat)) = pat

\* Fault: the query is compared as typed (C15 detects it).
search_nodes_QueryAsTyped(graph, q) ==
    LET Matches(n) ==
            \/ contains(to_lowercase(n.name), q)
            \/ IF IsSome(n.description)
               THEN contains(to_lowercase(n.description[1]), q)
               ELSE FALSE
    IN SelectSeq(graph.nodes, Matches)

search_nodes(graph, q) ==
    LET query_lower == to_lowercase(q)
        Matches(n) ==
            \/ contains(to_lowercase(n.name), query_lower)
            \/ IF IsSome(n.description)
               THEN contains(to_lowercase(n.description[1]), query_lower)
               ELSE FALSE
    IN SelectSeq(graph.nodes, Matches)

(***************************************************************************)
(* Parsed entities (types.rs), with the fields the builder and the         *)
(* analyzer read.                                                          *)
(***************************************************************************)
DbtSource(source_name, name, description) ==
    [source_name |-> source_name, name |-> name, description |-> description]

DbtSourceRef(source_name, table_name) ==
    [source_name |-> source_name, table_name |-> table_name]

DbtColumn(name, description, tests) ==
    [name |-> name, description |-> description, tests |-> tests]

DbtModel(name, description, columns, refs, srefs) ==
    [name |-> name, description |-> description, columns |-> columns,
     refs |-> refs, sources |-> srefs]

SemanticEntity(name, entity_type, description) ==
    [name |-> name, entity_type |-> entity_type, description |-> description]

Measure(name, description) == [name |-> name, description |-> description]

Dimension(name, description) == [name |-> name, description |-> description]

SemanticModel(name, model, entities, measures, dimensions) ==
    [name |-> name, model |-> model, entities |-> entities,
     measures |-> measures, dimensions |-> dimensions]

MetricRef(name, offset_window) == [name |-> name, offset_window |-> offset_window]

Metric(name, description, metric_type, measure, metric_refs) ==
    [name |-> name, description |-> description, metric_type |-> metric_type,
     type_params |-> [measure |-> measure, metrics |-> metric_refs]]

(***************************************************************************)
(* The explored inputs.  Each family varies one entity list over all       *)
(* sequences up to its bound and takes the other lists from a context.     *)
(***************************************************************************)
SourceRecs == {DbtSource(g, n, d) : g \in Names, n \in Names, d \in {None, Some(D)}}

RefLists == {<<>>, <<A>>, <<AA, A>>}
SourceRefLists ==
    {<<>>, <<DbtSourceRef(A, AA)>>, <<DbtSourceRef(AA, AA), DbtSourceRef(A, A)>>}
ModelRecs ==
    {DbtModel(n, None, <<>>, r, s) : n \in Names, r \in RefLists, s \in SourceRefLists}

RefModelRecs == {DbtModel(n, None, <<>>, r, <<>>) : n \in Names, r \in RefLists}

ColumnRecs ==
    {DbtColumn(A, d, t) : d \in {None, Some(D)}, t \in {<<>>, <<"unique">>}}
ColumnModelTails ==
    {<<>>,
     <<DbtModel(AA, Some(D), <<>>, <<>>, <<>>)>>,
     <<DbtModel(AA, Some(D), <<DbtColumn(A, None, <<"unique">>)>>, <<>>, <<>>)>>,
     <<DbtModel(AA, None, <<DbtColumn(A, None, <<>>)>>, <<>>,
                <<DbtSourceRef(AA, AA), DbtSourceRef(AA, A), DbtSourceRef(D, A)>>)>>}

\* The entities, measures and dimensions of a semantic model.
SemanticBodies ==
    {<< <<>>, <<>>, <<>> >>,
     << <<SemanticEntity(A, "foreign", None)>>,
        <<Measure(A, None)>>, <<Dimension(A, None)>> >>,
     << <<SemanticEntity(A, "primary", None)>>,
        <<Measure(A, None)>>, <<>> >>,
     << <<SemanticEntity(A, "foreign", None), SemanticEntity(AA, "primary", None)>>,
        <<Measure(AA, None)>>, <<Dimension(A, None)>> >>,
     << <<SemanticEntity(A, "primary", None), SemanticEntity(A, "foreign", None)>>,
        <<Measure(A, None), Measure(A, None)>>, <<>> >>}
SemanticModelRecs ==
    {SemanticModel(n, m, body[1], body[2], body[3]) :
        n \in Names, m \in Names, body \in SemanticBodies}

\* Type parameters as parse_metric_type_params fills them in for each kind.
MetricRefLists ==
    {None, Some(<<>>), Some(<<MetricRef(A, None)>>),
     Some(<<MetricRef(AA, Some(<<"1">>)), MetricRef(A, None)>>)}
MetricRecs ==
    {Metric(n, None, "simple", m, None) : n \in Names, m \in {None, Some(A), Some(AA)}}
    \cup {Metric(n, None, "cumulative", Some(A), None) : n \in Names}
    \cup {Metric(n, None, "derived", None, r) : n \in Names, r \in MetricRefLists}
    \cup {Metric(n, None, "ratio", m, r) :
            n \in Names, m \in {None, Some(A)}, r \in {None, Some(<<MetricRef(A, None)>>)}}

CtxSources == <<DbtSource(A, A, Some(D)), DbtSource(AA, A, None)>>
CtxModels == <<DbtModel(A, None, <<>>, <<>>, <<DbtSourceRef(A, A), DbtSourceRef(A, AA)>>)>>
CtxSemanticModels ==
    <<SemanticModel(A, A, <<SemanticEntity(A, "primary", None)>>,
                    <<Measure(A, None)>>, <<>>)>>
CtxSemanticModels2 ==
    <<SemanticModel(AA, A, <<>>, <<>>, <<>>),
      SemanticModel(A, A, <<SemanticEntity(A, "primary", None)>>,
                    <<Measure(AA, None)>>, <<>>)>>
CtxMetrics == <<Metric(A, None, "simple", Some(A), None)>>

(***************************************************************************)
(* What parse_project is called with: the ProjectConfig and what each      *)
(* parser finds on disk.                                                   *)
(***************************************************************************)
DbtProject(name) == [name |-> name]

SemanticLayerTypes == {"DbtSemanticLayer", "Snowflake", "None"}

ProjectConfig(semantic_layer_type, semantic_layer_path) ==
    [dbt_project_path |-> <<"p">>,
     semantic_layer_type |-> semantic_layer_type,
     semantic_layer_path |-> semantic_layer_path]

\* The anyhow::Error of a parser that failed, as {} formats it.
ParseError == <<"e">>

\* Path::exists of the project path and the Result of each parser.
Disk(exists, project, ms, srcs, semantic, snowflake) ==
    [exists |-> exists, dbt_project |-> project, models |-> ms, sources |-> srcs,
     semantic |-> semantic, snowflake |-> snowflake]

\* A dbt project with a dbt semantic layer, every file of which loads, and
\* the generator state that makes Uuid::new_v4 count 1, 2, 3, ..
Loads(srcs, ms, sms, mets) ==
    /\ config = ProjectConfig("DbtSemanticLayer", None)
    /\ rng = 1
    /\ disk = Disk(TRUE, Ok(DbtProject(A)), Ok(ms), Ok(srcs), Ok(<<sms, mets>>),
                   Err(ParseError))

\* Nothing to parse: every parser returns an empty list.
InitEmptyProject == Loads(<<>>, <<>>, <<>>, <<>>)

InitSources ==
    \E s \in SeqUpTo(SourceRecs, MaxSources) :
        Loads(s, CtxModels, CtxSemanticModels, CtxMetrics)

InitModels ==
    \E m \in SeqUpTo(ModelRecs, MaxModels) :
        Loads(CtxSources, m, CtxSemanticModels, CtxMetrics)

\* Models that refer to each other, under no semantic model and under two
\* semantic models built on one model.
InitModelCoverage ==
    \E m \in SeqUpTo(RefModelRecs, MaxModels),
       sm \in {<<>>, CtxSemanticModels2} :
        Loads(CtxSources, m, sm, CtxMetrics)

InitColumns ==
    \E c \in SeqUpTo(ColumnRecs, MaxColumns), rest \in ColumnModelTails :
        Loads(CtxSources, <<DbtModel(A, None, c, <<>>, <<>>)>> \o rest,
              CtxSemanticModels, CtxMetrics)

InitSemanticModels ==
    \E sm \in SeqUpTo(SemanticModelRecs, MaxSemanticModels) :
        Loads(CtxSources, CtxModels, sm, CtxMetrics)

InitMetrics ==
    \E m \in SeqUpTo(MetricRecs, MaxMetrics) :
        Loads(CtxSources, CtxModels, CtxSemanticModels, m)

\* The chain source <- model <- entity <- measure <- metric plus a dimension,
\* with every description free.
InitDescriptions ==
    \E d \in [1..6 -> Descriptions] :
        Loads(<<DbtSource(A, A, d[1])>>,
              <<DbtModel(A, d[2], <<>>, <<>>, <<DbtSourceRef(A, A)>>)>>,
              <<SemanticModel(A, A, <<SemanticEntity(A, "primary", d[3])>>,
                              <<Measure(A, d[4])>>, <<Dimension(A, d[5])>>)>>,
              <<Metric(A, d[6], "simple", Some(A), None)>>)

\* One source raw.orders, one model stg_orders that reads it, one semantic
\* model on stg_orders with the primary entity order_id and the measure
\* total_amount, one simple metric revenue on that measure.
Raw == <<"r", "a", "w">>
Orders == <<"o", "r", "d", "e", "r", "s">>
StgOrders == <<"s", "t", "g", "_">> \o Orders
OrderId == <<"o", "r", "d", "e", "r", "_", "i", "d">>
TotalAmount == <<"t", "o", "t", "a", "l", "_", "a", "m", "o", "u", "n", "t">>
Revenue == <<"r", "e", "v", "e", "n", "u", "e">>

ScenarioSources == <<DbtSource(Raw, Orders, None)>>
ScenarioModels ==
    <<DbtModel(StgOrders, None, <<>>, <<>>, <<DbtSourceRef(Raw, Orders)>>)>>
ScenarioSemanticModels ==
    <<SemanticModel(Orders, StgOrders, <<SemanticEntity(OrderId, "primary", None)>>,
                    <<Measure(TotalAmount, None)>>, <<>>)>>
ScenarioMetrics == <<Metric(Revenue, None, "simple", Some(TotalAmount), None)>>

InitScenario ==
    Loads(ScenarioSources, ScenarioModels, ScenarioSemanticModels, ScenarioMetrics)

\* Every combination of a missing path, failing parsers and semantic layer
\* configurations, over one fixed project.
InitFailures ==
    /\ config \in {ProjectConfig(t, p) :
                      t \in SemanticLayerTypes, p \in {None, Some(<<"s">>)}}
    /\ rng = 1
    /\ \E exists \in BOOLEAN,
          project \in {Ok(DbtProject(A)), Err(ParseError)},
          ms \in {Ok(CtxModels), Err(ParseError)},
          srcs \in {Ok(CtxSources), Err(ParseError)},
          semantic \in {Ok(<<CtxSemanticModels, CtxMetrics>>), Err(ParseError)},
          snowflake \in {Ok(<<"layer">>), Err(ParseError)} :
          disk = Disk(exists, project, ms, srcs, semantic, snowflake)

\* Other states of the random generator: ids that count down, and ids that
\* jump up and down.
UuidSeeds == {UuidSpace - 1, UuidSpace \div 2}

UuidSources == {CtxSources, <<DbtSource(A, A, None), DbtSource(A, A, None)>>}
UuidModels ==
    {CtxModels,
     <<DbtModel(A, None, <<>>, <<A>>, <<DbtSourceRef(A, A)>>),
       DbtModel(A, None, <<>>, <<>>, <<DbtSourceRef(A, AA)>>)>>}
UuidMetrics ==
    {CtxMetrics,
     <<Metric(A, None, "derived", None, Some(<<MetricRef(A, None)>>)),
       Metric(A, None, "simple", Some(AA), None)>>}

InitUuids ==
    /\ config = ProjectConfig("DbtSemanticLayer", None)
    /\ rng \in UuidSeeds
    /\ \E srcs \in UuidSources, ms \in UuidModels,
          sm \in {CtxSemanticModels, CtxSemanticModels2}, mets \in UuidMetrics :
          disk = Disk(TRUE, Ok(DbtProject(A)), Ok(ms), Ok(srcs), Ok(<<sm, mets>>),
                      Err(ParseError))

(***************************************************************************)
(* parse_project: the path check, the parsing stages, the loops of build   *)
(* (one iteration per step), then analyze.                                 *)
(***************************************************************************)
Phases == <<"check_path", "parse_dbt_project", "parse_models", "parse_sources",
            "parse_semantic_layer", "new_builder",
            "add_source_node", "add_model_node", "add_model_edges",
            "add_semantic_model_nodes", "add_metric_node", "add_metric_edges",
            "analyze", "done">>

\* The number of iterations of the loop of phase p (the other phases run once).
Iterations(p) ==
    CASE Phases[p] = "add_source_node" -> Len(sources)
      [] Phases[p] \in {"add_model_node", "add_model_edges"} -> Len(models)
      [] Phases[p] = "add_semantic_model_nodes" -> Len(semantic_models)
      [] Phases[p] \in {"add_metric_node", "add_metric_edges"} -> Len(metrics)
      [] OTHER -> 1

\* The first phase from p on whose loop has an iteration to run.
RECURSIVE Skip(_)
Skip(p) == IF Iterations(p) > 0 THEN p ELSE Skip(p + 1)

PhaseIndex(name) == CHOOSE p \in 1..Len(Phases) : Phases[p] = name

Builder == [nodes |-> nodes, edges |-> edges, node_ids |-> node_ids, rng |-> rng]

\* let mut result = ParseResult::default(), no builder yet, nothing returned.
DefaultResult ==
    /\ dbt_project = None
    /\ models = <<>>
    /\ sources = <<>>
    /\ semantic_models = <<>>
    /\ metrics = <<>>
    /\ nodes = <<>>
    /\ edges = <<>>
    /\ node_ids = <<>>
    /\ audit = DefaultAudit
    /\ errors = <<>>
    /\ warnings = <<>>
    /\ success = FALSE

\* No traversal loop is running.
NoTraversal ==
    /\ visited = {}
    /\ queue = <<>>
    /\ relevant_node_ids = {}

Init ==
    /\ \/ InitEmptyProject
       \/ InitSources
       \/ InitModels
       \/ InitModelCoverage
       \/ InitColumns
       \/ InitSemanticModels
       \/ InitMetrics
       \/ InitDescriptions
       \/ InitScenario
       \/ InitFailures
       \/ InitUuids
    /\ query = <<>>
    /\ DefaultResult
    /\ NoTraversal
    /\ pc = "check_path"
    /\ idx = 1
    /\ reply = None

\* if !project_path.exists() { return Err(..) }
CheckPath ==
    /\ pc = "check_path"
    /\ IF disk.exists
       THEN pc' = "parse_dbt_project" /\ reply' = reply
       ELSE /\ pc' = "returned"
            /\ reply' = Some(Err(<<"Project path does not exist: ",
                                   config.dbt_project_path>>))
    /\ UNCHANGED <<environment, traversal, dbt_project, models, sources, semantic_models,
                   metrics, nodes, edges, node_ids, audit, errors, warnings,
                   success, idx>>

\* Fault: the error is pushed but the return is missing (C18 detects it).
ParseDbtProject_NoReturn ==
    /\ pc = "parse_dbt_project"
    /\ IF IsOk(disk.dbt_project)
       THEN dbt_project' = Some(disk.dbt_project[2]) /\ UNCHANGED errors
       ELSE /\ errors' = Append(errors, <<"Failed to parse dbt_project.yml: ",
                                          disk.dbt_project[2]>>)
            /\ UNCHANGED dbt_project
    /\ pc' = "parse_models"
    /\ UNCHANGED <<environment, traversal, models, sources, semantic_models, metrics,
                   nodes, edges, node_ids, audit, warnings, success, idx, reply>>

\* match dbt_parser.parse_project(): Err pushes an error and returns Ok(result).
ParseDbtProject ==
    /\ pc = "parse_dbt_project"
    /\ IF IsOk(disk.dbt_project)
       THEN /\ dbt_project' = Some(disk.dbt_project[2])
            /\ pc' = "parse_models"
            /\ UNCHANGED <<errors, reply>>
       ELSE /\ errors' = Append(errors, <<"Failed to parse dbt_project.yml: ",
                                          disk.dbt_project[2]>>)
            /\ pc' = "returned"
            /\ reply' = Some(Ok("ParseResult"))
            /\ UNCHANGED dbt_project
    /\ UNCHANGED <<environment, traversal, models, sources, semantic_models, metrics,
                   nodes, edges, node_ids, audit, warnings, success, idx>>

ParseModels ==
    /\ pc = "parse_models"
    /\ IF IsOk(disk.models)
       THEN models' = disk.models[2] /\ UNCHANGED warnings
       ELSE /\ warnings' = Append(warnings, <<"Failed to parse some models: ",
                                              disk.models[2]>>)
            /\ UNCHANGED models
    /\ pc' = "parse_sources"
    /\ UNCHANGED <<environment, traversal, dbt_project, sources, semantic_models, metrics,
                   nodes, edges, node_ids, audit, errors, success, idx, reply>>

\* Fault: the failure is pushed to errors (C17 detects it).
ParseSources_AsError ==
    /\ pc = "parse_sources"
    /\ IF IsOk(disk.sources)
       THEN sources' = disk.sources[2] /\ UNCHANGED errors
       ELSE /\ errors' = Append(errors, <<"Failed to parse some sources: ",
                                          disk.sources[2]>>)
            /\ UNCHANGED sources
    /\ pc' = "parse_semantic_layer"
    /\ UNCHANGED <<environment, traversal, dbt_project, models, semantic_models, metrics,
                   nodes, edges, node_ids, audit, warnings, success, idx, reply>>

ParseSources ==
    /\ pc = "parse_sources"
    /\ IF IsOk(disk.sources)
       THEN sources' = disk.sources[2] /\ UNCHANGED warnings
       ELSE /\ warnings' = Append(warnings, <<"Failed to parse some sources: ",
                                              disk.sources[2]>>)
            /\ UNCHANGED sources
    /\ pc' = "parse_semantic_layer"
    /\ UNCHANGED <<environment, traversal, dbt_project, models, semantic_models, metrics,
                   nodes, edges, node_ids, audit, errors, success, idx, reply>>

\* match config.semantic_layer_type { .. }
ParseSemanticLayer ==
    /\ pc = "parse_semantic_layer"
    /\ CASE config.semantic_layer_type = "DbtSemanticLayer" ->
              IF IsOk(disk.semantic)
              THEN /\ semantic_models' = disk.semantic[2][1]
                   /\ metrics' = disk.semantic[2][2]
                   /\ UNCHANGED warnings
              ELSE /\ warnings' = Append(warnings, <<"Failed to parse semantic layer: ",
                                                     disk.semantic[2]>>)
                   /\ UNCHANGED <<semantic_models, metrics>>
         [] config.semantic_layer_type = "Snowflake" ->
              /\ warnings' = Append(warnings,
                    IF IsNone(config.semantic_layer_path)
                    THEN <<"Snowflake semantic layer path not provided">>
                    ELSE IF IsOk(disk.snowflake)
                         THEN <<"Snowflake semantic layer parsing is basic - full support coming soon">>
                         ELSE <<"Failed to parse Snowflake semantic layer: ",
                                disk.snowflake[2]>>)
              /\ UNCHANGED <<semantic_models, metrics>>
         [] config.semantic_layer_type = "None" ->
              UNCHANGED <<semantic_models, metrics, warnings>>
    /\ pc' = "new_builder"
    /\ UNCHANGED <<environment, traversal, dbt_project, models, sources,
                   nodes, edges, node_ids, audit, errors, success, idx, reply>>

\* let lineage_builder = LineageBuilder::new(); build starts with the first
\* loop that has an entity to work on.
NewLineageBuilder ==
    /\ pc = "new_builder"
    /\ nodes' = NewBuilder(rng).nodes
    /\ edges' = NewBuilder(rng).edges
    /\ node_ids' = NewBuilder(rng).node_ids
    /\ pc' = Phases[Skip(PhaseIndex("new_builder") + 1)]
    /\ UNCHANGED <<environment, traversal, dbt_project, models, sources, semantic_models,
                   metrics, audit, errors, warnings, success, idx, reply>>

\* One iteration of the loop of `phase`, leaving builder b.
Step(phase, list, b) ==
    /\ pc = phase
    /\ idx <= Len(list)
    /\ nodes' = b.nodes
    /\ edges' = b.edges
    /\ node_ids' = b.node_ids
    /\ IF idx < Len(list)
       THEN pc' = pc /\ idx' = idx + 1
       ELSE pc' = Phases[Skip(PhaseIndex(phase) + 1)] /\ idx' = 1
    /\ UNCHANGED <<environment, traversal, dbt_project, models, sources, semantic_models,
                   metrics, audit, errors, warnings, success, reply>>

AddSourceNode ==
    Step("add_source_node", sources, add_source_node(Builder, sources[idx]))

AddModelNode ==
    Step("add_model_node", models, add_model_node(Builder, models[idx]))

AddModelEdges ==
    Step("add_model_edges", models, add_model_edges(Builder, models[idx]))

AddSemanticModelNodes ==
    Step("add_semantic_model_nodes", semantic_models,
         add_semantic_model_nodes(Builder, semantic_models[idx]))

AddMetricNode ==
    Step("add_metric_node", metrics, add_metric_node(Builder, metrics[idx]))

AddMetricEdges ==
    Step("add_metric_edges", metrics,
         add_metric_edges(Builder, metrics[idx], semantic_models))

\* result.audit = analyzer.analyze(..); result.success = errors.is_empty();
\* Ok(result)
Analyze ==
    /\ pc = "analyze"
    /\ audit' = analyze(LineageGraph(nodes, edges), models, sources,
                        semantic_models, metrics)
    /\ success' = (Len(errors) = 0)
    /\ reply' = Some(Ok("ParseResult"))
    /\ pc' = "done"
    /\ UNCHANGED <<environment, traversal, dbt_project, models, sources, semantic_models,
                   metrics, nodes, edges, node_ids, errors, warnings, idx>>

Next ==
    \/ CheckPath
    \/ ParseDbtProject
    \/ ParseModels
    \/ ParseSources
    \/ ParseSemanticLayer
    \/ NewLineageBuilder
    \/ AddSourceNode
    \/ AddModelNode
    \/ AddModelEdges
    \/ AddSemanticModelNodes
    \/ AddMetricNode
    \/ AddMetricEdges
    \/ Analyze

Spec == Init /\ [][Next]_vars

TypeOK ==
    /\ pc \in Range(Phases) \cup {"returned"}
    /\ \A k \in 1..Len(nodes) : nodes[k].id \in 1..(UuidSpace - 1)
    /\ \A k, j \in 1..Len(nodes) : nodes[k].id = nodes[j].id => k = j
    /\ success \in BOOLEAN


(***************************************************************************)
(* The query commands, each called once on the graph of a parse result     *)
(* the caller holds: ids are unique and every edge joins two nodes of the  *)
(* graph, as in every graph build and the query commands return.  Names    *)
(* repeat, edges form chains, cycles and loops.                            *)
(***************************************************************************)
UpperA == <<"A">>

QueryNames == {A, UpperA}

TraversalNodes ==
    {[node_type |-> t, name |-> n] : t \in {"Metric", "Model"}, n \in QueryNames}

\* Nodes with their position as id.
NodesOf(recs) ==
    [k \in 1..Len(recs) |-> LineageNode(k, recs[k].node_type, recs[k].name, None)]

\* Edges between the given pairs of node ids, with ids of their own.
EdgesOf(pairs, n) ==
    [k \in 1..Len(pairs) |->
        LineageEdge(n + k, pairs[k][1], pairs[k][2], "ModelToModel", None)]

\* A metric first, or two metrics of one name first, then models.
NodeContexts ==
    {[k \in 1..MaxGraphNodes |->
        [node_type |-> IF k <= m THEN "Metric" ELSE "Model",
         name |-> IF k <= 2 THEN A ELSE UpperA]] : m \in {1, 2}}

\* No edge, the chain 1 -> 2 -> .. -> n, and the cycle that closes it.
EdgeContexts(n) ==
    {<<>>,
     [k \in 1..(n - 1) |-> <<k, k + 1>>],
     [k \in 1..n |-> <<k, (k % n) + 1>>]}

\* Every edge list over fixed nodes.
QueryInitEdges ==
    \E recs \in NodeContexts,
       pairs \in SeqUpTo((1..MaxGraphNodes) \X (1..MaxGraphNodes), MaxGraphEdges) :
        /\ nodes = NodesOf(recs)
        /\ edges = EdgesOf(pairs, Len(recs))

\* Every node list over fixed edges.
QueryInitNodes ==
    \E recs \in SeqUpTo(TraversalNodes, MaxGraphNodes) :
        \E pairs \in EdgeContexts(Len(recs)) :
            /\ nodes = NodesOf(recs)
            /\ edges = EdgesOf(pairs, Len(recs))

\* Nodes of pairwise distinct names, metrics and models in turn.
DistinctNodes ==
    [k \in 1..MaxGraphNodes |->
        [node_type |-> IF k % 2 = 1 THEN "Metric" ELSE "Model",
         name |-> IF k = 1 THEN A
                  ELSE IF k = 2 THEN UpperA
                  ELSE [i \in 1..(k - 1) |-> "a"]]]

\* Every edge list over nodes of distinct names.
QueryInitDistinct ==
    \E pairs \in SeqUpTo((1..MaxGraphNodes) \X (1..MaxGraphNodes), MaxGraphEdges) :
        /\ nodes = NodesOf(DistinctNodes)
        /\ edges = EdgesOf(pairs, MaxGraphNodes)

\* Names and descriptions in mixed case, for search_nodes.
SearchNames == {<<"a", "B">>, <<"b", "a">>}
SearchDescriptions == {None, Some(EmptyStr), Some(<<"B", "A">>)}
SearchQueries == {EmptyStr, <<"A", "b">>, <<"B", "a">>, <<"b", "b">>}

QueryInitSearch ==
    \E recs \in SeqUpTo(SearchNames \X SearchDescriptions, MaxGraphNodes) :
        /\ nodes = [k \in 1..Len(recs) |-> LineageNode(k, "Model", recs[k][1], recs[k][2])]
        /\ edges = <<>>

QueryInit ==
    /\ \/ QueryInitEdges
       \/ QueryInitNodes
       \/ QueryInitDistinct
       \/ QueryInitSearch
    /\ Loads(<<>>, <<>>, <<>>, <<>>)
    /\ query = <<>>
    /\ dbt_project = None
    /\ models = <<>>
    /\ sources = <<>>
    /\ semantic_models = <<>>
    /\ metrics = <<>>
    /\ node_ids = <<>>
    /\ audit = DefaultAudit
    /\ errors = <<>>
    /\ warnings = <<>>
    /\ success = TRUE
    /\ NoTraversal
    /\ pc = "query"
    /\ idx = 1
    /\ reply = None

\* A query command called with `arg`, returning `returned`.
Query(command, arg, returned) ==
    /\ pc = "query"
    /\ query' = arg
    /\ reply' = Some(returned)
    /\ pc' = command
    /\ UNCHANGED <<config, disk, rng, traversal, dbt_project, models, sources, semantic_models,
                   metrics, nodes, edges, node_ids, audit, errors, warnings,
                   success, idx>>

GetMetricLineage ==
    \E metric_name \in QueryNames :
        Query("get_metric_lineage", metric_name,
              get_metric_lineage(LineageGraph(nodes, edges), metric_name))

GetImpactAnalysis ==
    \E node_name \in QueryNames :
        Query("get_impact_analysis", node_name,
              get_impact_analysis(LineageGraph(nodes, edges), node_name))

SearchNodes ==
    \E q \in SearchQueries \cup QueryNames :
        Query("search_nodes", q, search_nodes(LineageGraph(nodes, edges), q))

QueryNext ==
    \/ GetMetricLineage
    \/ GetImpactAnalysis
    \/ SearchNodes

QuerySpec == QueryInit /\ [][QueryNext]_vars

(***************************************************************************)
(* The three traversal loops, one pass of `while let Some(current) =       *)
(* queue.pop()` at a time: has_complete_lineage as calculate_completeness_ *)
(* score calls it for a Metric node, and the loops of get_metric_lineage   *)
(* and get_impact_analysis between the lookup of the start node and the    *)
(* filter of the graph.  The loops are sequential code, so a pass that can *)
(* run does run.                                                           *)
(***************************************************************************)
\* Fault: the loop neither consults nor fills `visited` (C25 detects it).
lineage_iteration_Unmarked(graph, visited_in, queue_in) ==
    LET current == queue_in[Len(queue_in)]
        rest == SubSeq(queue_in, 1, Len(queue_in) - 1)
        IsCurrent(n) == n.id = current
        k == FindFirst(graph.nodes, IsCurrent)
        Out(e) == e.source = current
        TargetOf(e) == e.target
    IN [visited |-> visited_in,
        queue |-> rest \o MapSeq(SelectSeq(graph.edges, Out), TargetOf),
        found |-> k # 0 /\ graph.nodes[k].node_type = "Source"]

\* One pass of the loop of has_complete_lineage; found: `return true`.
lineage_iteration(graph, visited_in, queue_in) ==
    LET current == queue_in[Len(queue_in)]
        rest == SubSeq(queue_in, 1, Len(queue_in) - 1)
    IN IF current \in visited_in
       THEN [visited |-> visited_in, queue |-> rest, found |-> FALSE]
       ELSE LET seen == visited_in \cup {current}
                IsCurrent(n) == n.id = current
                k == FindFirst(graph.nodes, IsCurrent)
                Out(e) == e.source = current /\ e.target \notin seen
                TargetOf(e) == e.target
            IN IF k # 0 /\ graph.nodes[k].node_type = "Source"
               THEN [visited |-> seen, queue |-> rest, found |-> TRUE]
               ELSE [visited |-> seen,
                     queue |-> rest \o MapSeq(SelectSeq(graph.edges, Out), TargetOf),
                     found |-> FALSE]

\* Fault: a node's edges are followed again each time it is popped (C30
\* detects it).
upstream_iteration_Reexpand(graph, visited_in, queue_in) ==
    LET current == queue_in[Len(queue_in)]
        rest == SubSeq(queue_in, 1, Len(queue_in) - 1)
        Out(e) == e.source = current /\ e.target # current
        TargetOf(e) == e.target
    IN [visited |-> visited_in \cup {current},
        queue |-> rest \o MapSeq(SelectSeq(graph.edges, Out), TargetOf)]

\* One pass of the loop of get_metric_lineage.
upstream_iteration(graph, visited_in, queue_in) ==
    LET current == queue_in[Len(queue_in)]
        rest == SubSeq(queue_in, 1, Len(queue_in) - 1)
    IN IF current \in visited_in
       THEN [visited |-> visited_in, queue |-> rest]
       ELSE LET seen == visited_in \cup {current}
                Out(e) == e.source = current /\ e.target \notin seen
                TargetOf(e) == e.target
            IN [visited |-> seen,
                queue |-> rest \o MapSeq(SelectSeq(graph.edges, Out), TargetOf)]

\* One pass of the loop of get_impact_analysis.
downstream_iteration(graph, visited_in, queue_in) ==
    LET current == queue_in[Len(queue_in)]
        rest == SubSeq(queue_in, 1, Len(queue_in) - 1)
    IN IF current \in visited_in
       THEN [visited |-> visited_in, queue |-> rest]
       ELSE LET seen == visited_in \cup {current}
                In(e) == e.target = current /\ e.source \notin seen
                SourceOf(e) == e.source
            IN [visited |-> seen,
                queue |-> rest \o MapSeq(SelectSeq(graph.edges, In), SourceOf)]

\* A metric first and a source last, a model or a second metric in between.
LineageContexts ==
    {[k \in 1..MaxGraphNodes |->
        [node_type |-> IF k = 1 THEN "Metric"
                       ELSE IF k = MaxGraphNodes THEN "Source" ELSE t,
         name |-> IF k <= 2 THEN A ELSE UpperA]] : t \in {"Model", "Metric"}}

\* Every edge list, loops and cycles included, over nodes that end in a
\* source.
TraversalInitEdges ==
    \E recs \in LineageContexts,
       pairs \in SeqUpTo((1..MaxGraphNodes) \X (1..MaxGraphNodes), MaxGraphEdges) :
        /\ nodes = NodesOf(recs)
        /\ edges = EdgesOf(pairs, Len(recs))

TraversalInit ==
    /\ \/ TraversalInitEdges
       \/ QueryInitNodes
    /\ Loads(<<>>, <<>>, <<>>, <<>>)
    /\ query = <<>>
    /\ dbt_project = None
    /\ models = <<>>
    /\ sources = <<>>
    /\ semantic_models = <<>>
    /\ metrics = <<>>
    /\ node_ids = <<>>
    /\ audit = DefaultAudit
    /\ errors = <<>>
    /\ warnings = <<>>
    /\ success = TRUE
    /\ NoTraversal
    /\ pc = "call"
    /\ idx = 1
    /\ reply = None

\* let mut visited = HashSet::new(); let mut queue = vec![start];
StartLoop(loop, start) ==
    /\ visited' = {}
    /\ queue' = <<start>>
    /\ relevant_node_ids' = {}
    /\ pc' = loop
    /\ UNCHANGED reply

\* `return`, or the value the function ends with.
Return(value) ==
    /\ reply' = Some(value)
    /\ pc' = "returned"

\* calculate_completeness_score: has_complete_lineage(graph, &m.id) for the
\* Metric node at position idx.
CallHasCompleteLineage ==
    /\ pc = "call"
    /\ \E k \in 1..Len(nodes) :
          /\ nodes[k].node_type = "Metric"
          /\ idx' = k
          /\ StartLoop("has_complete_lineage", nodes[k].id)
    /\ UNCHANGED <<environment, dbt_project, models, sources, semantic_models,
                   metrics, nodes, edges, node_ids, audit, errors, warnings,
                   success>>

LineageIteration ==
    /\ pc = "has_complete_lineage"
    /\ Len(queue) > 0
    /\ LET next == lineage_iteration(LineageGraph(nodes, edges), visited, queue)
       IN /\ visited' = next.visited
          /\ queue' = next.queue
          /\ IF next.found THEN Return(TRUE) ELSE UNCHANGED <<pc, reply>>
    /\ UNCHANGED <<environment, relevant_node_ids, dbt_project, models, sources,
                   semantic_models, metrics, nodes, edges, node_ids, audit,
                   errors, warnings, success, idx>>

\* The queue is empty: has_complete_lineage ends with `false`.
LineageExhausted ==
    /\ pc = "has_complete_lineage"
    /\ Len(queue) = 0
    /\ Return(FALSE)
    /\ UNCHANGED <<environment, traversal, dbt_project, models, sources,
                   semantic_models, metrics, nodes, edges, node_ids, audit,
                   errors, warnings, success, idx>>

\* get_metric_lineage up to its loop: the `?` returns the Err.
CallGetMetricLineage ==
    /\ pc = "call"
    /\ \E metric_name \in QueryNames :
          LET k == find_metric_node(LineageGraph(nodes, edges), metric_name)
          IN /\ query' = metric_name
             /\ IF k = 0
                THEN /\ Return(Err(<<"Metric '", metric_name, "' not found">>))
                     /\ UNCHANGED traversal
                ELSE StartLoop("get_metric_lineage", nodes[k].id)
    /\ UNCHANGED <<config, disk, rng, dbt_project, models, sources, semantic_models,
                   metrics, nodes, edges, node_ids, audit, errors, warnings,
                   success, idx>>

\* get_impact_analysis up to its loop.
CallGetImpactAnalysis ==
    /\ pc = "call"
    /\ \E node_name \in QueryNames :
          LET k == find_node(LineageGraph(nodes, edges), node_name)
          IN /\ query' = node_name
             /\ IF k = 0
                THEN /\ Return(Err(<<"Node '", node_name, "' not found">>))
                     /\ UNCHANGED traversal
                ELSE StartLoop("get_impact_analysis", nodes[k].id)
    /\ UNCHANGED <<config, disk, rng, dbt_project, models, sources, semantic_models,
                   metrics, nodes, edges, node_ids, audit, errors, warnings,
                   success, idx>>

\* A pass of a query loop: relevant_node_ids is filled along with visited.
QueryIteration(loop, next) ==
    /\ pc = loop
    /\ Len(queue) > 0
    /\ visited' = next.visited
    /\ queue' = next.queue
    /\ relevant_node_ids' = relevant_node_ids \cup (next.visited \ visited)
    /\ UNCHANGED <<environment, dbt_project, models, sources, semantic_models,
                   metrics, nodes, edges, node_ids, audit, errors, warnings,
                   success, pc, idx, reply>>

UpstreamIteration ==
    QueryIteration("get_metric_lineage",
                   upstream_iteration(LineageGraph(nodes, edges), visited, queue))

DownstreamIteration ==
    QueryIteration("get_impact_analysis",
                   downstream_iteration(LineageGraph(nodes, edges), visited, queue))

\* The queue is empty: the graph is filtered and returned.
ReturnSubgraph ==
    /\ pc \in {"get_metric_lineage", "get_impact_analysis"}
    /\ Len(queue) = 0
    /\ Return(Ok(filter_graph(LineageGraph(nodes, edges), relevant_node_ids)))
    /\ UNCHANGED <<environment, traversal, dbt_project, models, sources,
                   semantic_models, metrics, nodes, edges, node_ids, audit,
                   errors, warnings, success, idx>>

TraversalNext ==
    \/ CallHasCompleteLineage
    \/ LineageIteration
    \/ LineageExhausted
    \/ CallGetMetricLineage
    \/ UpstreamIteration
    \/ CallGetImpactAnalysis
    \/ DownstreamIteration
    \/ ReturnSubgraph

TraversalSpec == TraversalInit /\ [][TraversalNext]_vars /\ WF_vars(TraversalNext)

(***************************************************************************)
(* Vocabulary of the properties.                                           *)
(***************************************************************************)
Done == pc = "done"

NodeIdSet == {nodes[k].id : k \in 1..Len(nodes)}

NodesOfType(t) == {k \in 1..Len(nodes) : nodes[k].node_type = t}

OutEdges(id) == {k \in 1..Len(edges) : edges[k].source = id}

\* The ids reachable from the ids of S along edges, source to target.
RECURSIVE ReachableFrom(_)
ReachableFrom(S) ==
    LET more == {edges[k].target : k \in {j \in 1..Len(edges) : edges[j].source \in S}}
    IN IF more \subseteq S THEN S ELSE ReachableFrom(S \cup more)

ReachesSource(id) ==
    \E k \in NodesOfType("Source") : nodes[k].id \in ReachableFrom({id})

IssuesOfType(t) ==
    LET Is(i) == i.issue_type = t IN SelectSeq(audit.issues, Is)

IssueCount(t, node_id) ==
    LET Is(i) == i.issue_type = t /\ i.node_id = node_id IN Count(audit.issues, Is)

\* The node add_metric_node pushed for metrics[k]: metric nodes come last.
MetricNode(k) == nodes[Len(nodes) - Len(metrics) + k]

(***************************************************************************)
(* C1: in every graph the builder holds, during and after build, whatever  *)
(* the inputs (unresolvable references, duplicate names), both endpoints   *)
(* of every edge are ids of nodes of that graph.                           *)
(***************************************************************************)
C1_NoDanglingEdges ==
    \A k \in 1..Len(edges) :
        edges[k].source \in NodeIdSet /\ edges[k].target \in NodeIdSet

\* A finished build with edges, a dropped model reference and a repeated name.
C1_Witness ==
    /\ Done
    /\ Len(edges) > 0
    /\ \E k \in 1..Len(models) : \E j \in 1..Len(models[k].refs) :
          model_key(models[k].refs[j]) \notin DOMAIN node_ids
    /\ \E k, j \in 1..Len(models) : k # j /\ models[k].name = models[j].name

(***************************************************************************)
(* C2: after build and analyze, completeness_score is 100 when the metric  *)
(* list is empty, and otherwise 100 x (Metric nodes from which a directed  *)
(* path reaches a Source node) / (Metric nodes).                           *)
(***************************************************************************)
C2_CompletenessScore ==
    Done =>
        audit.completeness_score =
            IF Len(metrics) = 0 THEN Hundred
            ELSE Percent(Cardinality({k \in NodesOfType("Metric") :
                                         ReachesSource(nodes[k].id)}),
                         Cardinality(NodesOfType("Metric")))

\* Two metrics: one with the chain Metric -> Measure -> Entity -> Model ->
\* Source, counted complete, one without outgoing edges, counted incomplete.
C2_Witness ==
    /\ Done
    /\ audit.completeness_score = Percent(1, 2)
    /\ \E m \in NodesOfType("Metric") : OutEdges(nodes[m].id) = {}
    /\ \E e1, e2, e3, e4 \in 1..Len(edges) :
          /\ edges[e1].edge_type = "MetricToMeasure"
          /\ edges[e2].edge_type = "MeasureToEntity"
          /\ edges[e3].edge_type = "EntityToModel"
          /\ edges[e4].edge_type = "ModelToSource"
          /\ edges[e1].target = edges[e2].source
          /\ edges[e2].target = edges[e3].source
          /\ edges[e3].target = edges[e4].source

\* The metric list is empty and the score is 100.
C2_WitnessEmpty == Done /\ Len(metrics) = 0 /\ audit.completeness_score = Hundred

(***************************************************************************)
(* C3: analyze emits exactly one orphaned-metric issue, of severity Error  *)
(* and carrying the node's id, for each Metric node that is the source of  *)
(* no edge, none for a Metric node that is the source of an edge, and no   *)
(* orphaned-metric issue for anything else.                                *)
(***************************************************************************)
C3_OrphanedMetrics ==
    Done =>
        /\ \A k \in NodesOfType("Metric") :
              IssueCount("OrphanedMetric", Some(nodes[k].id)) =
                  IF OutEdges(nodes[k].id) = {} THEN 1 ELSE 0
        /\ \A i \in Range(IssuesOfType("OrphanedMetric")) :
              /\ i.severity = "Error"
              /\ \E k \in NodesOfType("Metric") : i.node_id = Some(nodes[k].id)

\* One metric node with an outgoing edge and one without.
C3_Witness ==
    /\ Done
    /\ \E k \in NodesOfType("Metric") :
          OutEdges(nodes[k].id) = {} /\ IssueCount("OrphanedMetric", Some(nodes[k].id)) = 1
    /\ \E k \in NodesOfType("Metric") : OutEdges(nodes[k].id) # {}

(***************************************************************************)
(* C4: after build and analyze, a metric whose measure reference names a   *)
(* measure no semantic model declares, or whose sub-metric references name *)
(* no metric, has a node with no outgoing edge, gets exactly one Error     *)
(* orphaned-metric issue with that node's id and is counted incomplete     *)
(* (score 0 when it is the only metric).                                   *)
(***************************************************************************)
Unresolvable(m) ==
    \/ /\ m.metric_type \in {"simple", "cumulative"}
       /\ IsSome(m.type_params.measure)
       /\ \A sm \in Range(semantic_models) : \A ms \in Range(sm.measures) :
             ms.name # m.type_params.measure[1]
    \/ /\ m.metric_type = "derived"
       /\ IsSome(m.type_params.metrics)
       /\ Len(m.type_params.metrics[1]) > 0
       /\ \A r \in Range(m.type_params.metrics[1]) : \A m2 \in Range(metrics) :
             m2.name # r.name

C4_UnresolvedMetricIsOrphaned ==
    Done =>
        \A k \in 1..Len(metrics) :
            Unresolvable(metrics[k]) =>
                /\ OutEdges(MetricNode(k).id) = {}
                /\ IssueCount("OrphanedMetric", Some(MetricNode(k).id)) = 1
                /\ ~ReachesSource(MetricNode(k).id)
                /\ Len(metrics) = 1 => audit.completeness_score = Percent(0, 1)

(***************************************************************************)
(* C5 as stated: a model gets an Info orphaned-model issue exactly when no *)
(* edge that originates from an Entity node targets a Model node bearing   *)
(* its name; edges from other node kinds do not count.                     *)
(***************************************************************************)
NodeWithId(id) == CHOOSE k \in 1..Len(nodes) : nodes[k].id = id

\* Edges to a Model node named `name` whose source node has a type of `types`.
EdgesToModel(name, types) ==
    {k \in 1..Len(edges) :
        /\ nodes[NodeWithId(edges[k].target)].node_type = "Model"
        /\ nodes[NodeWithId(edges[k].target)].name = name
        /\ nodes[NodeWithId(edges[k].source)].node_type \in types}

NodeTypes == {"Metric", "Measure", "Dimension", "Entity", "Model", "Source"}

ModelsNamed(name) == {k \in 1..Len(models) : models[k].name = name}

OrphanedModelIssues(name) ==
    LET Is(i) == i.issue_type = "OrphanedModel" /\ i.message = <<name>>
    IN Count(audit.issues, Is)

OrphanedModelsBy(types) ==
    /\ \A k \in 1..Len(models) :
          OrphanedModelIssues(models[k].name) =
              IF EdgesToModel(models[k].name, types) = {}
              THEN Cardinality(ModelsNamed(models[k].name))
              ELSE 0
    /\ \A i \in Range(IssuesOfType("OrphanedModel")) :
          /\ i.severity = "Info"
          /\ \E k \in 1..Len(models) : i.message = <<models[k].name>>

PairDeclared(r) ==
    \E k \in 1..Len(sources) :
        sources[k].source_name = r.source_name /\ sources[k].name = r.table_name

RECURSIVE UndeclaredRefs(_, _)
UndeclaredRefs(k, j) ==
    IF k > Len(models) THEN <<>>
    ELSE IF j > Len(models[k].sources) THEN UndeclaredRefs(k + 1, 1)
    ELSE (IF PairDeclared(models[k].sources[j])
          THEN <<>>
          ELSE <<[model |-> models[k].name, ref |-> models[k].sources[j]]>>)
         \o UndeclaredRefs(k, j + 1)

C6_MissingSources ==
    Done =>
        LET found == IssuesOfType("MissingSource")
            expected == UndeclaredRefs(1, 1)
        IN /\ Len(found) = Len(expected)
           /\ \A k \in 1..Len(found) :
                 /\ found[k].severity = "Error"
                 /\ found[k].message[1] = expected[k].model

(***************************************************************************)
(* C7: the no-tests issues are one Warning issue per model none of whose   *)
(* columns has a test; a model without columns gets one, and contributes   *)
(* no undocumented-column issue.                                           *)
(***************************************************************************)
HasTestedColumn(m) == \E k \in 1..Len(m.columns) : m.columns[k].tests # <<>>

UndocumentedColumns(m) ==
    Cardinality({k \in 1..Len(m.columns) : m.columns[k].description = None})

\* The undocumented columns of the models at the positions of S.
RECURSIVE UndocumentedIn(_)
UndocumentedIn(S) ==
    IF S = {} THEN 0
    ELSE LET k == CHOOSE j \in S : TRUE
         IN UndocumentedColumns(models[k]) + UndocumentedIn(S \ {k})

C7_ModelsWithoutTests ==
    Done =>
        /\ \A k \in 1..Len(models) :
              LET name == models[k].name
                  NoTests(i) == i.issue_type = "NoTests" /\ i.message = <<name>>
                  Undoc(i) == i.issue_type = "UndocumentedColumn" /\ i.message[2] = name
              IN /\ Count(audit.issues, NoTests) =
                       Cardinality({j \in ModelsNamed(name) : ~HasTestedColumn(models[j])})
                 /\ Count(audit.issues, Undoc) = UndocumentedIn(ModelsNamed(name))
        /\ \A i \in Range(IssuesOfType("NoTests")) :
              /\ i.severity = "Warning"
              /\ \E k \in 1..Len(models) : i.message = <<models[k].name>>
        /\ Len(models) = 0 => IssuesOfType("UndocumentedColumn") = <<>>

\* A model without columns (one no-tests issue, no undocumented-column
\* issue) next to a model with a tested and an untested column (no issue).
C7_Witness ==
    /\ Done
    /\ \E k, j \in 1..Len(models) :
          /\ models[k].name # models[j].name
          /\ Len(models[k].columns) = 0
          /\ \E a, b \in 1..Len(models[j].columns) :
                /\ models[j].columns[a].tests = <<>>
                /\ models[j].columns[b].tests # <<>>
    /\ Len(IssuesOfType("NoTests")) = 1

(***************************************************************************)
(* C8 as stated: documentation_coverage is 100 for a graph without nodes   *)
(* and otherwise 100 x (nodes whose description is present and non-empty)  *)
(* / (nodes).                                                              *)
(***************************************************************************)
C8_Original ==
    Done =>
        audit.documentation_coverage =
            IF Len(nodes) = 0 THEN Hundred
            ELSE Percent(Cardinality({k \in 1..Len(nodes) :
                                         /\ nodes[k].description # None
                                         /\ nodes[k].description # Some(EmptyStr)}),
                         Len(nodes))

(***************************************************************************)
(* C8 amended: documentation_coverage is 100 for a graph without nodes and *)
(* otherwise 100 x (nodes whose description is present, the empty string   *)
(* included) / (nodes).                                                    *)
(***************************************************************************)
C8_DocumentationCoverage ==
    Done =>
        audit.documentation_coverage =
            IF Len(nodes) = 0 THEN Hundred
            ELSE Percent(Len(nodes)
                           - Cardinality({k \in 1..Len(nodes) : nodes[k].description = None}),
                         Len(nodes))

\* Nodes with no description, with an empty one and with a non-empty one.
C8_Witness ==
    /\ Done
    /\ \E a, b, c \in 1..Len(nodes) :
          /\ nodes[a].description = None
          /\ nodes[b].description = Some(EmptyStr)
          /\ nodes[c].description = Some(D)

\* The graph without nodes.
C8_WitnessEmpty == Done /\ Len(nodes) = 0 /\ audit.documentation_coverage = Hundred

(***************************************************************************)
(* C9: model_coverage is 100 when there are no models and otherwise        *)
(* 100 x (models whose name is the model field of a semantic model)        *)
(* / (models).                                                             *)
(***************************************************************************)
C9_ModelCoverage ==
    Done =>
        audit.model_coverage =
            IF Len(models) = 0 THEN Hundred
            ELSE Percent(Cardinality({k \in 1..Len(models) :
                                         \E j \in 1..Len(semantic_models) :
                                             semantic_models[j].model = models[k].name}),
                         Len(models))

\* Two models, one of them referenced by a semantic model of another name.
C9_Witness ==
    /\ Done
    /\ audit.model_coverage = Percent(1, 2)
    /\ \E j \in 1..Len(semantic_models) :
          semantic_models[j].model # semantic_models[j].name

\* No models.
C9_WitnessEmpty == Done /\ Len(models) = 0 /\ audit.model_coverage = Hundred

(***************************************************************************)
(* C10: analyze emits exactly one missing-description issue, carrying the  *)
(* node's id, for each node without a description and none for the others; *)
(* its severity is Warning for a Metric or Model node and Info for a       *)
(* Source, Entity, Measure or Dimension node.                              *)
(***************************************************************************)
C10_MissingDescriptions ==
    Done =>
        /\ \A k \in 1..Len(nodes) :
              IssueCount("MissingDescription", Some(nodes[k].id)) =
                  IF nodes[k].description = None THEN 1 ELSE 0
        /\ \A i \in Range(IssuesOfType("MissingDescription")) :
              \E k \in 1..Len(nodes) :
                 /\ i.node_id = Some(nodes[k].id)
                 /\ nodes[k].node_type \in {"Metric", "Model"} => i.severity = "Warning"
                 /\ nodes[k].node_type \in {"Source", "Entity", "Measure", "Dimension"}
                       => i.severity = "Info"

\* Every node type has a node without a description, reported once, and a
\* node has an empty description, not reported.
C10_Witness ==
    /\ Done
    /\ \A t \in NodeTypes \ {"Source"} :
          \E k \in NodesOfType(t) :
             /\ nodes[k].description = None
             /\ IssueCount("MissingDescription", Some(nodes[k].id)) = 1
    /\ \E k \in NodesOfType("Source") :
          /\ nodes[k].description = Some(EmptyStr)
          /\ IssueCount("MissingDescription", Some(nodes[k].id)) = 0

(***************************************************************************)
(* C11: the issues analyze returns are grouped in check order, whatever    *)
(* their severity: missing-description, orphaned-model, orphaned-metric,   *)
(* missing-source, undocumented-column, no-tests; within a group they      *)
(* follow the order of the nodes (for the two checks that walk the nodes)  *)
(* or of the models, and within a model of its source references or        *)
(* columns.                                                                *)
(***************************************************************************)
CheckOrder == <<"MissingDescription", "OrphanedModel", "OrphanedMetric",
                "MissingSource", "UndocumentedColumn", "NoTests">>

CheckRank(t) == CHOOSE k \in 1..Len(CheckOrder) : CheckOrder[k] = t

NodePosition(id) == CHOOSE k \in 1..Len(nodes) : nodes[k].id = id

\* s is t with some elements left out.
RECURSIVE IsSubsequence(_, _)
IsSubsequence(s, t) ==
    IF Len(s) = 0 THEN TRUE
    ELSE IF Len(t) = 0 THEN FALSE
    ELSE IF Head(s) = Head(t) THEN IsSubsequence(Tail(s), Tail(t))
    ELSE IsSubsequence(s, Tail(t))

IssueMessages(t) ==
    LET MessageOf(i) == i.message IN MapSeq(IssuesOfType(t), MessageOf)

ModelNames ==
    LET NameOf(m) == <<m.name>> IN MapSeq(models, NameOf)

SourceRefsInOrder ==
    LET OfModel(m) ==
            LET RefOf(r) == <<m.name, r.source_name \o Dot \o r.table_name>>
            IN MapSeq(m.sources, RefOf)
    IN Flatten(MapSeq(models, OfModel))

ColumnsInOrder ==
    LET OfModel(m) ==
            LET ColumnOf(c) == <<c.name, m.name>> IN MapSeq(m.columns, ColumnOf)
    IN Flatten(MapSeq(models, OfModel))

NodeOrdered(t) ==
    \A i, j \in 1..Len(IssuesOfType(t)) :
        i < j => NodePosition(IssuesOfType(t)[i].node_id[1])
                    < NodePosition(IssuesOfType(t)[j].node_id[1])

C11_IssueOrder ==
    Done =>
        /\ \A i, j \in 1..Len(audit.issues) :
              i < j => CheckRank(audit.issues[i].issue_type)
                          <= CheckRank(audit.issues[j].issue_type)
        /\ NodeOrdered("MissingDescription")
        /\ NodeOrdered("OrphanedMetric")
        /\ IsSubsequence(IssueMessages("OrphanedModel"), ModelNames)
        /\ IsSubsequence(IssueMessages("MissingSource"), SourceRefsInOrder)
        /\ IsSubsequence(IssueMessages("UndocumentedColumn"), ColumnsInOrder)
        /\ IsSubsequence(IssueMessages("NoTests"), ModelNames)

\* Issues of five checks whose severities go Info, Error, Info, with two
\* issues of one model in the missing-source group and undocumented columns
\* of two models.
C11_Witness ==
    /\ Done
    /\ Cardinality({audit.issues[k].issue_type : k \in 1..Len(audit.issues)}) >= 5
    /\ \E i, j, k \in 1..Len(audit.issues) :
          /\ i < j /\ j < k
          /\ audit.issues[i].severity = "Info"
          /\ audit.issues[j].severity = "Error"
          /\ audit.issues[k].severity = "Info"
    /\ \E i, j \in 1..Len(IssuesOfType("UndocumentedColumn")) :
          IssuesOfType("UndocumentedColumn")[i].message[2]
              # IssuesOfType("UndocumentedColumn")[j].message[2]
    /\ \E i, j \in 1..Len(IssuesOfType("MissingSource")) :
          i # j /\ IssuesOfType("MissingSource")[i].message[1]
                      = IssuesOfType("MissingSource")[j].message[1]

(***************************************************************************)
(* C17: when the project path exists and dbt_project.yml loads, the        *)
(* failure of a later parsing stage (models, sources, dbt semantic layer,  *)
(* Snowflake semantic layer) does not end parse_project: it is recorded    *)
(* as a warning and never as an error, the builder and the analyzer run    *)
(* on the entities that were parsed, and the result has success = true.    *)
(***************************************************************************)
ProjectLoads == disk.exists /\ IsOk(disk.dbt_project)

HasWarning(text, stage) == \E k \in 1..Len(warnings) : warnings[k] = <<text, stage[2]>>

\* The lists the stages that succeeded have parsed.
ParsedOrEmpty(stage) == IF IsOk(stage) THEN stage[2] ELSE <<>>

ParsedSemantic ==
    IF config.semantic_layer_type = "DbtSemanticLayer" /\ IsOk(disk.semantic)
    THEN disk.semantic[2]
    ELSE << <<>>, <<>> >>

C17_LaterFailuresAreWarnings ==
    ProjectLoads =>
        /\ pc # "returned"
        /\ errors = <<>>
        /\ Done =>
            /\ success = TRUE
            /\ reply = Some(Ok("ParseResult"))
            /\ IsErr(disk.models) => HasWarning("Failed to parse some models: ", disk.models)
            /\ IsErr(disk.sources) => HasWarning("Failed to parse some sources: ", disk.sources)
            /\ (config.semantic_layer_type = "DbtSemanticLayer" /\ IsErr(disk.semantic))
                  => HasWarning("Failed to parse semantic layer: ", disk.semantic)
            /\ (/\ config.semantic_layer_type = "Snowflake"
                /\ IsSome(config.semantic_layer_path)
                /\ IsErr(disk.snowflake))
                  => HasWarning("Failed to parse Snowflake semantic layer: ", disk.snowflake)
            /\ models = ParsedOrEmpty(disk.models)
            /\ sources = ParsedOrEmpty(disk.sources)
            /\ semantic_models = ParsedSemantic[1]
            /\ metrics = ParsedSemantic[2]
            /\ Cardinality(NodesOfType("Model")) = Len(models)
            /\ Cardinality(NodesOfType("Source")) = Len(sources)
            /\ Cardinality(NodesOfType("Metric")) = Len(metrics)
            /\ audit.summary.total_models = Len(models)
            /\ audit.summary.total_sources = Len(sources)
            /\ audit.summary.total_metrics = Len(metrics)

\* The sources failed to parse, the models did not: the graph has the model
\* nodes and the audit reports their source references as missing.
C17_Witness ==
    /\ Done
    /\ ProjectLoads
    /\ IsErr(disk.sources)
    /\ IsOk(disk.models)
    /\ Len(warnings) = 1
    /\ Cardinality(NodesOfType("Model")) > 0
    /\ Len(IssuesOfType("MissingSource")) > 0
    /\ success = TRUE

\* Every later stage failed.
C17_WitnessAllFail ==
    /\ Done
    /\ ProjectLoads
    /\ IsErr(disk.sources) /\ IsErr(disk.models) /\ IsErr(disk.semantic)
    /\ Len(warnings) = 3
    /\ success = TRUE

(***************************************************************************)
(* C18: when the project path does not exist or dbt_project.yml fails to   *)
(* load, parse_project reports exactly one error string and stops: no      *)
(* later parsing stage, builder or analyzer runs, and a result that is     *)
(* returned has an empty graph and success = false.                        *)
(***************************************************************************)
ErrorStringsReported ==
    Len(errors) + (IF IsSome(reply) /\ IsErr(reply[1]) THEN 1 ELSE 0)

C18_LoadFailureStops ==
    ~ProjectLoads =>
        /\ pc \in {"check_path", "parse_dbt_project", "returned"}
        /\ ~disk.exists => pc # "parse_dbt_project"
        /\ models = <<>> /\ sources = <<>> /\ semantic_models = <<>> /\ metrics = <<>>
        /\ warnings = <<>>
        /\ nodes = <<>> /\ edges = <<>> /\ node_ids = <<>>
        /\ audit = DefaultAudit
        /\ success = FALSE
        /\ pc = "returned" =>
              /\ ErrorStringsReported = 1
              /\ IsOk(reply[1]) <=> disk.exists

\* dbt_project.yml failed to load although every other file would have.
C18_Witness ==
    /\ pc = "returned"
    /\ disk.exists
    /\ IsErr(disk.dbt_project)
    /\ IsOk(disk.models) /\ IsOk(disk.sources) /\ IsOk(disk.semantic)
    /\ errors = << <<"Failed to parse dbt_project.yml: ", ParseError>> >>
    /\ reply = Some(Ok("ParseResult"))

\* The project path does not exist: Err(message), no result.
C18_WitnessNoPath ==
    /\ pc = "returned"
    /\ ~disk.exists
    /\ IsErr(reply[1])
    /\ errors = <<>>

(***************************************************************************)
(* C16: whatever ids Uuid::new_v4 hands out, build on the same four lists  *)
(* yields the same graph up to the renaming of ids (node types, names and  *)
(* descriptions, edge types, labels and endpoint positions, position by    *)
(* position), and analyze yields the same issue sequence, an issue's node  *)
(* reference being compared through that renaming.  The run of the state   *)
(* is compared with the build under every other state of the generator.    *)
(***************************************************************************)
PositionIn(graph, id) == CHOOSE k \in 1..Len(graph.nodes) : graph.nodes[k].id = id

NodeShapes(graph) ==
    LET ShapeOf(n) == <<n.node_type, n.name, n.description>>
    IN MapSeq(graph.nodes, ShapeOf)

EdgeShapes(graph) ==
    LET ShapeOf(e) == <<e.edge_type, e.label,
                        PositionIn(graph, e.source), PositionIn(graph, e.target)>>
    IN MapSeq(graph.edges, ShapeOf)

IssueShapes(graph, issues) ==
    LET ShapeOf(i) == <<i.severity, i.issue_type, i.message,
                        IF IsSome(i.node_id)
                        THEN Some(PositionIn(graph, i.node_id[1]))
                        ELSE None>>
    IN MapSeq(issues, ShapeOf)

Rebuilt(r) == build(NewBuilder(r), models, sources, semantic_models, metrics)

C16_BuildTwice ==
    Done =>
        LET first == LineageGraph(nodes, edges)
            node_shapes == NodeShapes(first)
            edge_shapes == EdgeShapes(first)
            issue_shapes == IssueShapes(first, audit.issues)
        IN \A r \in ({1} \cup UuidSeeds) \ {rng} :
              LET second == Rebuilt(r)
              IN /\ NodeShapes(second) = node_shapes
                 /\ EdgeShapes(second) = edge_shapes
                 /\ IssueShapes(second,
                                analyze(second, models, sources,
                                        semantic_models, metrics).issues)
                       = issue_shapes

\* A finished run whose ids do not follow the order of the nodes, with
\* edges, a repeated model name and issues that refer to nodes.
C16_Witness ==
    /\ Done
    /\ rng # 1
    /\ \E k, j \in 1..Len(nodes) : k < j /\ nodes[k].id > nodes[j].id
    /\ Len(edges) > 2
    /\ \E k, j \in 1..Len(models) : k # j /\ models[k].name = models[j].name
    /\ Cardinality({i \in 1..Len(audit.issues) : IsSome(audit.issues[i].node_id)}) > 2
    /\ Rebuilt(1).nodes # nodes

(***************************************************************************)
(* C19: two input entities with the same resolution key.  NodeKeys[k] is   *)
(* the key nodes[k] was registered under: build pushes the nodes of the    *)
(* sources, the models, each semantic model's entities, measures and       *)
(* dimensions, and the metrics, in that order.  An edge's target is always *)
(* resolved through a key; its source is resolved through a key for the    *)
(* edges of add_model_edges and add_metric_edges.                          *)
(***************************************************************************)
NodeKeys ==
    LET SourceKey(s) == source_key(s.source_name, s.name)
        ModelKey(m) == model_key(m.name)
        MetricKey(m) == metric_key(m.name)
        OfSemanticModel(sm) ==
            LET EntityKey(e) == entity_key(sm.name, e.name)
                MeasureKey(m) == measure_key(sm.name, m.name)
                DimensionKey(d) == dimension_key(sm.name, d.name)
            IN MapSeq(sm.entities, EntityKey) \o MapSeq(sm.measures, MeasureKey)
                  \o MapSeq(sm.dimensions, DimensionKey)
    IN MapSeq(sources, SourceKey) \o MapSeq(models, ModelKey)
          \o Flatten(MapSeq(semantic_models, OfSemanticModel))
          \o MapSeq(metrics, MetricKey)

\* Nodes k < j registered under one key.
SameKey(k, j) == k < j /\ NodeKeys[k] = NodeKeys[j]

SourceResolvedByKey(e) ==
    e.edge_type \in {"ModelToModel", "ModelToSource", "MetricToMeasure", "MetricToMetric"}

\* The edges resolved through the key of nodes[k] that ended at nodes[k].
UsesNode(e, k) ==
    \/ e.target = nodes[k].id
    \/ SourceResolvedByKey(e) /\ e.source = nodes[k].id

\* C19 as claimed: both entities get a node, and every edge resolved
\* through the shared key uses the later node, never the earlier one.
C19_Original ==
    Done =>
        /\ Len(NodeKeys) = Len(nodes)
        /\ \A k, j \in 1..Len(nodes) :
              SameKey(k, j) =>
                  /\ nodes[k].id # nodes[j].id
                  /\ \A x \in 1..Len(edges) : ~UsesNode(edges[x], k)

LastWith(keys, key) ==
    CHOOSE j \in 1..Len(keys) :
        keys[j] = key /\ \A k \in 1..Len(keys) : keys[k] = key => k <= j

\* C19 as amended: both entities get a node and the key maps to the later
\* one; every edge resolved through the key once the later node is
\* registered uses the later node.  That is every edge but the
\* measure-to-entity and dimension-to-entity edges of an earlier semantic
\* model, which are resolved before a later semantic model registers an
\* entity under the same key and keep the earlier entity node.
C19_LastWriteWins ==
    Done =>
        LET keys == NodeKeys
        IN /\ Len(keys) = Len(nodes)
           /\ DOMAIN node_ids = Range(keys)
           /\ \A key \in DOMAIN node_ids :
                 node_ids[key] = nodes[LastWith(keys, key)].id
           /\ \A k, j \in 1..Len(nodes) :
                 (k < j /\ keys[k] = keys[j]) =>
                     /\ nodes[k].id # nodes[j].id
                     /\ \A x \in 1..Len(edges) :
                           UsesNode(edges[x], k) =>
                               /\ edges[x].target = nodes[k].id
                               /\ edges[x].edge_type \in {"MeasureToEntity", "DimensionToEntity"}
                               /\ NodePosition(edges[x].source) < j

\* Two semantic models register an entity under one key: the measure of the
\* first points at the first entity node, the measure of the second at the
\* second.
C19_Witness ==
    /\ Done
    /\ \E k, j \in NodesOfType("Entity") :
          /\ SameKey(k, j)
          /\ \E x, y \in 1..Len(edges) :
                /\ edges[x].edge_type = "MeasureToEntity"
                /\ edges[y].edge_type = "MeasureToEntity"
                /\ edges[x].target = nodes[k].id
                /\ edges[y].target = nodes[j].id

\* Two models of one name: the edges of both start at the later node, and a
\* reference to the name ends there.
C19_WitnessModels ==
    /\ Done
    /\ \E k, j \in NodesOfType("Model") :
          /\ SameKey(k, j)
          /\ \E x, y \in 1..Len(edges) :
                /\ x # y
                /\ edges[x].edge_type = "ModelToSource"
                /\ edges[x].source = nodes[j].id
                /\ edges[y].edge_type = "ModelToModel"
                /\ edges[y].target = nodes[j].id

\* Two metrics of one name, the later one referred to by a derived metric.
C19_WitnessMetrics ==
    /\ Done
    /\ \E k, j \in NodesOfType("Metric") :
          /\ SameKey(k, j)
          /\ \E x \in 1..Len(edges) :
                edges[x].edge_type = "MetricToMetric" /\ edges[x].target = nodes[j].id

(***************************************************************************)
(* C20: the scenario of one source raw.orders, one model stg_orders that   *)
(* reads it, one semantic model on stg_orders with primary entity order_id *)
(* and measure total_amount, and one simple metric revenue on that         *)
(* measure.                                                                *)
(***************************************************************************)
ScenarioBuilt ==
    /\ Done
    /\ sources = ScenarioSources
    /\ models = ScenarioModels
    /\ semantic_models = ScenarioSemanticModels
    /\ metrics = ScenarioMetrics

\* C20 as claimed: build returns exactly 5 nodes and exactly 3 edges.
C20_Original == ScenarioBuilt => Len(nodes) = 5 /\ Len(edges) = 3

EdgeTypes == LET TypeOf(e) == e.edge_type IN MapSeq(edges, TypeOf)

\* C20 as amended: build returns exactly 5 nodes (source, model, entity,
\* measure, metric) and exactly 4 edges (model to source, entity to model,
\* measure to entity, metric to measure), each from a node to the one
\* before it.
C20_Scenario ==
    ScenarioBuilt =>
        /\ Len(nodes) = 5
        /\ [k \in 1..5 |-> nodes[k].node_type]
              = <<"Source", "Model", "Entity", "Measure", "Metric">>
        /\ Len(edges) = 4
        /\ EdgeTypes = <<"ModelToSource", "EntityToModel",
                         "MeasureToEntity", "MetricToMeasure">>
        /\ \A k \in 1..Len(edges) :
              /\ edges[k].source = nodes[k + 1].id
              /\ edges[k].target = nodes[k].id

C20_Witness == ScenarioBuilt /\ Len(edges) > 0

(***************************************************************************)
(* Vocabulary of the query properties: nodes and edges are the graph the   *)
(* command was called on, query its string argument, reply what it         *)
(* returned.                                                               *)
(***************************************************************************)
\* The ids from which an id of S is reachable along edges, source to target.
RECURSIVE ReachingInto(_)
ReachingInto(S) ==
    LET more == {edges[k].source : k \in {j \in 1..Len(edges) : edges[j].target \in S}}
    IN IF more \subseteq S THEN S ELSE ReachingInto(S \cup more)

\* The subgraph of the nodes with an id in R and the edges between them, in
\* graph order.
InducedSubgraph(R) ==
    LET InR(n) == n.id \in R
        Joins(e) == e.source \in R /\ e.target \in R
    IN LineageGraph(SelectSeq(nodes, InR), SelectSeq(edges, Joins))

Least(S) == CHOOSE k \in S : \A j \in S : k <= j

(***************************************************************************)
(* C12: get_metric_lineage(G, M) fails with the not-found error when no    *)
(* Metric node of G is named exactly M; otherwise it returns, in graph     *)
(* order, exactly the nodes reachable along edges (source to target) from  *)
(* the first Metric node named M, that node included, and exactly the      *)
(* edges of G with both endpoints among them.                              *)
(***************************************************************************)
MetricsNamed(name) ==
    {k \in 1..Len(nodes) : nodes[k].node_type = "Metric" /\ nodes[k].name = name}

C12_MetricLineage ==
    pc = "get_metric_lineage" =>
        IF MetricsNamed(query) = {}
        THEN reply[1] = Err(<<"Metric '", query, "' not found">>)
        ELSE /\ IsOk(reply[1])
             /\ reply[1][2].lineage
                   = InducedSubgraph(ReachableFrom({nodes[Least(MetricsNamed(query))].id}))

\* The query starts at the second of two metrics of the name, behind a model
\* of the same name, and returns a part of the graph two edges deep.
C12_Witness ==
    /\ pc = "get_metric_lineage"
    /\ IsOk(reply[1])
    /\ Cardinality(MetricsNamed(query)) = 2
    /\ \E k \in 1..Len(nodes) :
          /\ k < Least(MetricsNamed(query))
          /\ nodes[k].name = query
    /\ Len(reply[1][2].lineage.nodes) = 2
    /\ Len(reply[1][2].lineage.edges) >= 1
    /\ Len(reply[1][2].lineage.edges) < Len(edges)

\* No metric of the name, though a model bears it and a metric bears it in
\* another case.
C12_WitnessNotFound ==
    /\ pc = "get_metric_lineage"
    /\ IsErr(reply[1])
    /\ \E k \in 1..Len(nodes) : nodes[k].name = query
    /\ \E k \in NodesOfType("Metric") : to_lowercase(nodes[k].name) = to_lowercase(query)

(***************************************************************************)
(* C13: permuting the node list and the edge list of the graph before      *)
(* get_metric_lineage is called.                                           *)
(***************************************************************************)
Permuted(p, q) ==
    LineageGraph([k \in 1..Len(nodes) |-> nodes[p[k]]],
                 [k \in 1..Len(edges) |-> edges[q[k]]])

\* The set of node ids of the returned subgraph; None when the call failed.
ReturnedIds(r) ==
    IF IsOk(r) THEN Some({r[2].lineage.nodes[k].id : k \in 1..Len(r[2].lineage.nodes)})
    ELSE None

\* C13 as claimed: for any graph and metric name, no permutation changes
\* the set of node ids of the returned subgraph.
C13_Original ==
    pc = "get_metric_lineage" =>
        \A p \in Permutations(1..Len(nodes)), q \in Permutations(1..Len(edges)) :
            ReturnedIds(get_metric_lineage(Permuted(p, q), query)) = ReturnedIds(reply[1])

\* The node the query starts from in a graph, None if it fails.
StartNode(graph, metric_name) ==
    IF find_metric_node(graph, metric_name) = 0 THEN None
    ELSE Some(graph.nodes[find_metric_node(graph, metric_name)].id)

\* C13 as amended: a permutation under which the same Metric node is the
\* first one of the name (every permutation, when the graph has one Metric
\* node named M or none) does not change the set of node ids of the
\* returned subgraph; when several Metric nodes bear the name, the query
\* starts at whichever comes first and returns its lineage.
C13_PermutationInvariance ==
    pc = "get_metric_lineage" =>
        LET first == StartNode(LineageGraph(nodes, edges), query)
            returned == ReturnedIds(reply[1])
            one_candidate == Cardinality(MetricsNamed(query)) <= 1
        IN \A p \in Permutations(1..Len(nodes)), q \in Permutations(1..Len(edges)) :
              LET graph == Permuted(p, q)
                  start == StartNode(graph, query)
                  ids == ReturnedIds(get_metric_lineage(graph, query))
              IN /\ start = first => ids = returned
                 /\ one_candidate => start = first
                 /\ IsSome(ids) => ids = Some(ReachableFrom({start[1]}))

\* Three nodes and two edges to permute, a lineage two edges deep.
C13_Witness ==
    /\ pc = "get_metric_lineage"
    /\ Cardinality(MetricsNamed(query)) = 1
    /\ Len(nodes) = 3
    /\ Len(edges) = 2
    /\ edges[1].source # Least(MetricsNamed(query))
    /\ ReturnedIds(reply[1]) = Some({1, 2, 3})

(***************************************************************************)
(* C14: get_impact_analysis(G, N) fails with the not-found error when no   *)
(* node of G, of any type, is named exactly N; otherwise it returns        *)
(* exactly the nodes from which the first node named N is reachable (that  *)
(* node included) and exactly the edges of G with both endpoints among     *)
(* them.                                                                   *)
(***************************************************************************)
NodesNamed(name) == {k \in 1..Len(nodes) : nodes[k].name = name}

C14_ImpactAnalysis ==
    pc = "get_impact_analysis" =>
        IF NodesNamed(query) = {}
        THEN reply[1] = Err(<<"Node '", query, "' not found">>)
        ELSE /\ IsOk(reply[1])
             /\ reply[1][2].lineage
                   = InducedSubgraph(ReachingInto({nodes[Least(NodesNamed(query))].id}))

\* The impact of a model that is not the first node, two edges deep, in a
\* graph that also has edges leaving it.
C14_Witness ==
    /\ pc = "get_impact_analysis"
    /\ IsOk(reply[1])
    /\ nodes[Least(NodesNamed(query))].node_type = "Model"
    /\ Least(NodesNamed(query)) > 1
    /\ Len(reply[1][2].lineage.nodes) = 2
    /\ Len(reply[1][2].lineage.edges) >= 1
    /\ \E k \in 1..Len(edges) :
          /\ edges[k].source = nodes[Least(NodesNamed(query))].id
          /\ edges[k].target # edges[k].source

C14_WitnessNotFound ==
    /\ pc = "get_impact_analysis"
    /\ IsErr(reply[1])
    /\ Len(nodes) > 0

(***************************************************************************)
(* C15: search_nodes returns, in graph order, exactly the nodes whose name *)
(* or description contains the query as a substring, letters compared      *)
(* without regard to case; the empty query returns every node, those       *)
(* without a description included.                                         *)
(***************************************************************************)
SameLetter(c, d) == c = d \/ {c, d} \in {{"a", "A"}, {"b", "B"}}

ContainsIgnoringCase(str, pat) ==
    \E i \in 0..(Len(str) - Len(pat)) :
        \A j \in 1..Len(pat) : SameLetter(str[i + j], pat[j])

Found(n) ==
    \/ ContainsIgnoringCase(n.name, query)
    \/ IsSome(n.description) /\ ContainsIgnoringCase(n.description[1], query)

C15_SearchNodes ==
    pc = "search_nodes" =>
        /\ reply[1] = SelectSeq(nodes, Found)
        /\ query = EmptyStr => reply[1] = nodes

\* A query in mixed case found in the name of one node only, in the
\* description of another only, and not in a third.
C15_Witness ==
    /\ pc = "search_nodes"
    /\ query = <<"B", "a">>
    /\ Len(nodes) = 3
    /\ Len(reply[1]) = 2
    /\ \E k \in 1..Len(reply[1]) :
          reply[1][k].name = <<"b", "a">> /\ IsNone(reply[1][k].description)
    /\ \E k \in 1..Len(reply[1]) :
          reply[1][k].name = <<"a", "B">> /\ reply[1][k].description = Some(<<"B", "A">>)
    /\ \E k \in 1..Len(nodes) : nodes[k].description = Some(EmptyStr)

C15_WitnessEmptyQuery ==
    /\ pc = "search_nodes"
    /\ query = EmptyStr
    /\ Len(nodes) = 3
    /\ reply[1] = nodes
    /\ \E k \in 1..Len(nodes) : IsNone(nodes[k].description)

(***************************************************************************)
(* Where build puts the nodes of a semantic model: after the nodes of the  *)
(* sources and of the models come, for each semantic model in turn, the    *)
(* nodes of its entities, of its measures and of its dimensions.           *)
(***************************************************************************)
SemanticSize(sm) == Len(sm.entities) + Len(sm.measures) + Len(sm.dimensions)

RECURSIVE SemanticBase(_)
SemanticBase(j) ==
    IF j = 1 THEN Len(sources) + Len(models)
    ELSE SemanticBase(j - 1) + SemanticSize(semantic_models[j - 1])

EntityNode(j, e) == nodes[SemanticBase(j) + e]

MeasureNode(j, m) == nodes[SemanticBase(j) + Len(semantic_models[j].entities) + m]

DimensionNode(j, d) ==
    nodes[SemanticBase(j) + Len(semantic_models[j].entities)
             + Len(semantic_models[j].measures) + d]

\* The node has exactly one outgoing edge, of the given type, to `target`.
OnlyEdge(node, edge_type, target) ==
    \E k \in 1..Len(edges) :
        /\ OutEdges(node.id) = {k}
        /\ edges[k].edge_type = edge_type
        /\ edges[k].target = target.id

(***************************************************************************)
(* C21: every measure and every dimension of a semantic model has exactly  *)
(* one outgoing edge, to the node of the first primary entity of that      *)
(* semantic model, and no outgoing edge when the semantic model has no     *)
(* primary entity, also when entity names or semantic-model names repeat.  *)
(***************************************************************************)
C21_AttachedToPrimary ==
    Done =>
        \A j \in 1..Len(semantic_models) :
            LET sm == semantic_models[j]
                p == FindFirst(sm.entities, IsPrimary)
            IN /\ \A m \in 1..Len(sm.measures) :
                     IF p = 0 THEN OutEdges(MeasureNode(j, m).id) = {}
                     ELSE OnlyEdge(MeasureNode(j, m), "MeasureToEntity", EntityNode(j, p))
               /\ \A d \in 1..Len(sm.dimensions) :
                     IF p = 0 THEN OutEdges(DimensionNode(j, d).id) = {}
                     ELSE OnlyEdge(DimensionNode(j, d), "DimensionToEntity", EntityNode(j, p))

(***************************************************************************)
(* C22: a simple or cumulative metric that names a measure has exactly one *)
(* outgoing edge, a metric-to-measure edge to a measure of that name in    *)
(* the first semantic model, in declaration order, that declares one, and  *)
(* no outgoing edge when no semantic model declares the measure; a metric  *)
(* node of these kinds never has more than one outgoing edge.              *)
(***************************************************************************)
Declares(sm, measure_name) ==
    \E m \in 1..Len(sm.measures) : sm.measures[m].name = measure_name

\* The first semantic model that declares the measure, 0 if none does.
FirstDeclaring(measure_name) ==
    LET Hit(sm) == Declares(sm, measure_name) IN FindFirst(semantic_models, Hit)

MeasuresNamed(j, measure_name) ==
    {m \in 1..Len(semantic_models[j].measures) :
        semantic_models[j].measures[m].name = measure_name}

C22_MetricToMeasure ==
    Done =>
        \A k \in 1..Len(metrics) :
            metrics[k].metric_type \in {"simple", "cumulative"} =>
                LET out == OutEdges(MetricNode(k).id)
                    measure == metrics[k].type_params.measure
                IN /\ Cardinality(out) <= 1
                   /\ IsSome(measure) =>
                         LET j == FirstDeclaring(measure[1]) IN
                         IF j = 0 THEN out = {}
                         ELSE \E m \in MeasuresNamed(j, measure[1]) :
                                 OnlyEdge(MetricNode(k), "MetricToMeasure", MeasureNode(j, m))

(***************************************************************************)
(* C23: the iteration of add_metric_edges for a derived metric appends one *)
(* metric-to-metric edge per reference whose name is the name of a metric  *)
(* of the input, declared earlier or later, in the order of the            *)
(* references; the edge carries the reference's offset window as its label *)
(* (none when the reference has none), starts at a Metric node bearing the *)
(* derived metric's name and ends at a Metric node bearing the referenced  *)
(* name; a reference that matches no metric appends nothing, and nothing   *)
(* else of the graph changes.                                              *)
(***************************************************************************)
MetricRefsOf(m) ==
    IF IsSome(m.type_params.metrics) THEN m.type_params.metrics[1] ELSE <<>>

NamesAMetric(r) == \E k \in 1..Len(metrics) : metrics[k].name = r.name

IsMetricNodeNamed(id, name) ==
    \E k \in NodesOfType("Metric") : nodes[k].id = id /\ nodes[k].name = name

C23_DerivedMetricEdges ==
    [][(pc = "add_metric_edges" /\ metrics[idx].metric_type = "derived") =>
          LET kept == SelectSeq(MetricRefsOf(metrics[idx]), NamesAMetric)
          IN /\ nodes' = nodes
             /\ Len(edges') = Len(edges) + Len(kept)
             /\ SubSeq(edges', 1, Len(edges)) = edges
             /\ \A x \in 1..Len(kept) :
                   LET e == edges'[Len(edges) + x]
                   IN /\ e.edge_type = "MetricToMetric"
                      /\ e.label = kept[x].offset_window
                      /\ IsMetricNodeNamed(e.source, metrics[idx].name)
                      /\ IsMetricNodeNamed(e.target, kept[x].name)]_vars

\* A derived metric whose first reference, with an offset window, names a
\* metric declared after it and whose second reference names the metric
\* itself: two labelled and unlabelled edges.
C23_Witness ==
    /\ Done
    /\ Len(metrics) = 2
    /\ metrics[1].metric_type = "derived"
    /\ Len(MetricRefsOf(metrics[1])) = 2
    /\ MetricRefsOf(metrics[1])[1].name = metrics[2].name
    /\ metrics[2].name # metrics[1].name
    /\ \E x, y \in OutEdges(MetricNode(1).id) :
          /\ IsSome(edges[x].label) /\ edges[x].target = MetricNode(2).id
          /\ IsNone(edges[y].label) /\ edges[y].target = MetricNode(1).id

\* A derived metric whose first reference names no metric and whose second
\* does: one edge, for the second.
C23_WitnessDropped ==
    /\ Done
    /\ \E k \in 1..Len(metrics) :
          /\ metrics[k].metric_type = "derived"
          /\ Len(MetricRefsOf(metrics[k])) = 2
          /\ ~NamesAMetric(MetricRefsOf(metrics[k])[1])
          /\ NamesAMetric(MetricRefsOf(metrics[k])[2])
          /\ Cardinality(OutEdges(MetricNode(k).id)) = 1

(***************************************************************************)
(* C24: a metric of a kind other than simple, cumulative and derived gets  *)
(* no edge from its node, whatever references it declares, so analyze      *)
(* reports it as an orphaned metric and does not count it complete.        *)
(***************************************************************************)
C24_OtherKindsOrphaned ==
    Done =>
        \A k \in 1..Len(metrics) :
            metrics[k].metric_type \notin {"simple", "cumulative", "derived"} =>
                /\ OutEdges(MetricNode(k).id) = {}
                /\ IssueCount("OrphanedMetric", Some(MetricNode(k).id)) = 1
                /\ ~has_complete_lineage(LineageGraph(nodes, edges), MetricNode(k).id)

(***************************************************************************)
(* Vocabulary of the traversal loops.                                      *)
(***************************************************************************)
Popped == queue[Len(queue)]

IsSourceId(id) == \E k \in NodesOfType("Source") : nodes[k].id = id

\* Some node lies on a cycle of edges (a self-loop is one).
HasCycle ==
    \E k \in 1..Len(edges) : edges[k].source \in ReachableFrom({edges[k].target})

\* has_complete_lineage has returned: it fills visited and has no
\* relevant_node_ids.
LineageReturned == pc = "returned" /\ visited # {} /\ relevant_node_ids = {}

(***************************************************************************)
(* C25: has_complete_lineage terminates on every graph, cycles and         *)
(* self-loops included.  A node popped after it was visited is skipped, so *)
(* each node is expanded at most once; the call returns true in the pass   *)
(* that pops an unvisited Source node and false, not an error, when the    *)
(* queue is empty; the value is that of the function taken whole.          *)
(***************************************************************************)
C25_CompletenessTraversal ==
    /\ (pc = "has_complete_lineage") ~> (pc = "returned")
    /\ [][pc = "has_complete_lineage" =>
            /\ visited \subseteq visited'
            /\ IF Len(queue) = 0
               THEN pc' = "returned" /\ reply' = Some(FALSE)
               ELSE IF Popped \in visited
               THEN /\ visited' = visited
                    /\ queue' = SubSeq(queue, 1, Len(queue) - 1)
                    /\ pc' = pc
               ELSE /\ visited' = visited \cup {Popped}
                    /\ IF IsSourceId(Popped)
                       THEN pc' = "returned" /\ reply' = Some(TRUE)
                       ELSE pc' = pc
            /\ pc' = "returned" =>
                  reply'[1] = has_complete_lineage(LineageGraph(nodes, edges),
                                                   nodes[idx].id)]_vars

\* The call has returned false on a graph with a cycle through the metric.
C25_Witness ==
    /\ LineageReturned
    /\ reply = Some(FALSE)
    /\ HasCycle
    /\ nodes[idx].id \in {edges[k].target : k \in 1..Len(edges)}
    /\ ~ReachesSource(nodes[idx].id)
    /\ Cardinality(visited) > 1

\* A node pushed twice is popped again after it was visited.
C25_WitnessSkipped ==
    /\ pc = "has_complete_lineage"
    /\ Len(queue) > 0
    /\ Popped \in visited

\* The call has returned true at a source next to a metric with a self-loop.
C25_WitnessFound ==
    /\ LineageReturned
    /\ reply = Some(TRUE)
    /\ HasCycle
    /\ Cardinality(visited) = 2

(***************************************************************************)
(* C26: the iteration of add_model_edges for a model appends one           *)
(* model-to-model edge per ref that names a model of the input (declared   *)
(* earlier, later, or the model itself) and then one model-to-source edge  *)
(* per source reference whose (group, table) pair is that of an input      *)
(* source, each to a node of the named model or source; a reference with   *)
(* no match appends nothing, and nothing else of the graph changes.        *)
(***************************************************************************)
NamesAModel(ref_name) == \E k \in 1..Len(models) : models[k].name = ref_name

IsModelNodeNamed(id, name) ==
    \E k \in NodesOfType("Model") : nodes[k].id = id /\ nodes[k].name = name

\* The node of an input source with the pair of r: source nodes come first.
IsSourceNodeOf(id, r) ==
    \E k \in 1..Len(sources) :
        /\ sources[k].source_name = r.source_name
        /\ sources[k].name = r.table_name
        /\ nodes[k].id = id

C26_ModelEdges ==
    [][pc = "add_model_edges" =>
          LET model == models[idx]
              refs == SelectSeq(model.refs, NamesAModel)
              srefs == SelectSeq(model.sources, PairDeclared)
          IN /\ nodes' = nodes
             /\ Len(edges') = Len(edges) + Len(refs) + Len(srefs)
             /\ SubSeq(edges', 1, Len(edges)) = edges
             /\ \A x \in 1..Len(refs) :
                   LET e == edges'[Len(edges) + x]
                   IN /\ e.edge_type = "ModelToModel"
                      /\ IsModelNodeNamed(e.source, model.name)
                      /\ IsModelNodeNamed(e.target, refs[x])
             /\ \A x \in 1..Len(srefs) :
                   LET e == edges'[Len(edges) + Len(refs) + x]
                   IN /\ e.edge_type = "ModelToSource"
                      /\ IsModelNodeNamed(e.source, model.name)
                      /\ IsSourceNodeOf(e.target, srefs[x])]_vars

(***************************************************************************)
(* C27 as stated: a model whose name is the model field of some semantic   *)
(* model gets no orphaned-model issue, and summary.orphaned_models is the  *)
(* number of models that are the model field of no semantic model.         *)
(***************************************************************************)
CoveredBy(k) ==
    {j \in 1..Len(semantic_models) : semantic_models[j].model = models[k].name}

Uncovered == {k \in 1..Len(models) : CoveredBy(k) = {}}

Unreached == {k \in 1..Len(models) : EdgesToModel(models[k].name, NodeTypes) = {}}

C27_WitnessNoEntity ==
    /\ Done
    /\ \E k \in 1..Len(models) :
          /\ CoveredBy(k) # {}
          /\ OrphanedModelIssues(models[k].name) = 1
    /\ audit.summary.orphaned_models > Cardinality(Uncovered)

(***************************************************************************)
(* C28: in every graph the builder holds, during and after build, the node *)
(* types at the two ends of each edge are those its edge_type names,       *)
(* whatever names the inputs use; so no Source node has an outgoing edge.  *)
(***************************************************************************)
EndpointTypes(edge_type) ==
    CASE edge_type = "ModelToModel" -> <<"Model", "Model">>
      [] edge_type = "ModelToSource" -> <<"Model", "Source">>
      [] edge_type = "EntityToModel" -> <<"Entity", "Model">>
      [] edge_type = "MeasureToEntity" -> <<"Measure", "Entity">>
      [] edge_type = "DimensionToEntity" -> <<"Dimension", "Entity">>
      [] edge_type = "MetricToMeasure" -> <<"Metric", "Measure">>
      [] edge_type = "MetricToMetric" -> <<"Metric", "Metric">>

TypeOfId(id) == nodes[NodeWithId(id)].node_type

C28_EdgeEndpointTypes ==
    /\ \A k \in 1..Len(edges) :
          /\ edges[k].source \in NodeIdSet
          /\ edges[k].target \in NodeIdSet
          /\ <<TypeOfId(edges[k].source), TypeOfId(edges[k].target)>>
                = EndpointTypes(edges[k].edge_type)
    /\ \A k \in NodesOfType("Source") : OutEdges(nodes[k].id) = {}

\* A finished build with edges of five types out of semantic models whose
\* names and entity names repeat or carry a dot.
C28_Witness ==
    /\ Done
    /\ Cardinality({edges[k].edge_type : k \in 1..Len(edges)}) >= 5
    /\ \E j \in 1..Len(semantic_models) : semantic_models[j].name = AA
    /\ \E k, j \in NodesOfType("Entity") : k # j /\ nodes[k].name = nodes[j].name

\* A finished build with model-to-model and metric-to-metric edges between
\* nodes of one name.
C28_WitnessSameNames ==
    /\ Done
    /\ \E k, j \in 1..Len(edges) :
          /\ edges[k].edge_type = "MetricToMetric"
          /\ edges[j].edge_type = "ModelToSource"
    /\ \E k, j \in NodesOfType("Metric") : k # j /\ nodes[k].name = nodes[j].name

C28_WitnessModels ==
    /\ Done
    /\ \E k \in 1..Len(edges) : edges[k].edge_type = "ModelToModel"
    /\ \E k, j \in NodesOfType("Model") : k # j /\ nodes[k].name = nodes[j].name

(***************************************************************************)
(* C29: in a graph whose node names are pairwise distinct, for a metric M  *)
(* and a node X, X's node is among the nodes get_metric_lineage returns    *)
(* for M if and only if M's node is among the nodes get_impact_analysis    *)
(* returns for X's name.  Checked on the reply of either command against   *)
(* what the other one returns on the same graph.                           *)
(***************************************************************************)
DistinctNames ==
    \A k, j \in 1..Len(nodes) : nodes[k].name = nodes[j].name => k = j

\* Is node n among the nodes of the result r of a query command.
Returns(r, n) == IsOk(r) /\ n \in Range(r[2].lineage.nodes)

C29_LineageImpactDuality ==
    DistinctNames =>
        LET graph == LineageGraph(nodes, edges) IN
        /\ (pc = "get_metric_lineage" /\ IsOk(reply[1])) =>
              LET M == nodes[Least(NodesNamed(query))] IN
              \A k \in 1..Len(nodes) :
                  Returns(reply[1], nodes[k])
                      <=> Returns(get_impact_analysis(graph, nodes[k].name), M)
        /\ (pc = "get_impact_analysis" /\ IsOk(reply[1])) =>
              LET X == nodes[Least(NodesNamed(query))] IN
              \A k \in NodesOfType("Metric") :
                  Returns(get_metric_lineage(graph, nodes[k].name), X)
                      <=> Returns(reply[1], nodes[k])

\* The lineage of a metric that leaves out a node with an edge into the
\* metric and holds a node the metric has an edge to.
C29_Witness ==
    /\ DistinctNames
    /\ pc = "get_metric_lineage"
    /\ IsOk(reply[1])
    /\ Len(nodes) = 3
    /\ Len(reply[1][2].lineage.nodes) = 2
    /\ \E k \in 1..Len(edges) :
          /\ edges[k].target = nodes[Least(NodesNamed(query))].id
          /\ ~Returns(reply[1], nodes[NodeWithId(edges[k].source)])

\* The impact of a model that holds a metric two edges away and a metric
\* one edge away.
C29_WitnessImpact ==
    /\ DistinctNames
    /\ pc = "get_impact_analysis"
    /\ IsOk(reply[1])
    /\ nodes[Least(NodesNamed(query))].node_type = "Model"
    /\ Len(edges) = 2
    /\ Cardinality({k \in NodesOfType("Metric") : Returns(reply[1], nodes[k])}) = 2
    /\ \E k \in NodesOfType("Metric") :
          /\ Returns(reply[1], nodes[k])
          /\ \A j \in 1..Len(edges) :
                ~(edges[j].source = nodes[k].id
                  /\ edges[j].target = nodes[Least(NodesNamed(query))].id)

(***************************************************************************)
(* C30: get_metric_lineage and get_impact_analysis terminate on every      *)
(* graph, cycles and self-loops included.  A pass that pops a visited node *)
(* expands nothing and a pass that pops an unvisited node marks it, so     *)
(* each node is expanded at most once.  The returned subgraph holds each   *)
(* node and each edge of the input at most once, in input order, and every *)
(* endpoint of its edges is in its node list.                              *)
(***************************************************************************)
QueryLoops == {"get_metric_lineage", "get_impact_analysis"}

\* A query loop has run empty and the subgraph was returned.
QueryReturned == pc = "returned" /\ relevant_node_ids # {}

\* The ids the pass that pops `current` may push.
Neighbours(loop, current) ==
    IF loop = "get_metric_lineage"
    THEN {edges[k].target : k \in OutEdges(current)}
    ELSE {edges[k].source : k \in {j \in 1..Len(edges) : edges[j].target = current}}

NoRepeat(s) == \A i, j \in 1..Len(s) : s[i] = s[j] => i = j

\* The subgraph sub of the state's graph has each node and edge at most
\* once and no edge with an endpoint outside its node list.
WellFormedSubgraph(sub) ==
    LET ids == {sub.nodes[k].id : k \in 1..Len(sub.nodes)} IN
    /\ IsSubsequence(sub.nodes, nodes) /\ NoRepeat(sub.nodes)
    /\ IsSubsequence(sub.edges, edges) /\ NoRepeat(sub.edges)
    /\ \A k \in 1..Len(sub.edges) :
          sub.edges[k].source \in ids /\ sub.edges[k].target \in ids

\* What a step taken inside a query loop does.
QueryPass ==
    IF Len(queue) = 0
    THEN /\ pc' = "returned"
         /\ IsOk(reply'[1])
         /\ WellFormedSubgraph(reply'[1][2].lineage)
         /\ reply'[1] = IF pc = "get_metric_lineage"
                        THEN get_metric_lineage(LineageGraph(nodes, edges), query)
                        ELSE get_impact_analysis(LineageGraph(nodes, edges), query)
    ELSE /\ pc' = pc
         /\ Len(queue') >= Len(queue) - 1
         /\ SubSeq(queue', 1, Len(queue) - 1) = SubSeq(queue, 1, Len(queue) - 1)
         /\ IF Popped \in visited
            THEN /\ visited' = visited
                 /\ Len(queue') = Len(queue) - 1
            ELSE /\ visited' = visited \cup {Popped}
                 /\ \A i \in Len(queue)..Len(queue') :
                       /\ queue'[i] \in Neighbours(pc, Popped)
                       /\ queue'[i] \notin visited'

C30_QueryTraversals ==
    /\ (pc \in QueryLoops) ~> (pc = "returned")
    /\ [](pc \in QueryLoops =>
            /\ visited = relevant_node_ids
            /\ visited \subseteq NodeIdSet
            /\ Range(queue) \subseteq NodeIdSet)
    /\ [][(pc \in QueryLoops) => QueryPass]_vars

\* get_metric_lineage has collected three nodes of a graph with a cycle and
\* is about to return.
C30_Witness ==
    /\ pc = "get_metric_lineage"
    /\ Len(queue) = 0
    /\ HasCycle
    /\ Cardinality(visited) = 3

\* A node pushed twice is popped again after it was visited.
C30_WitnessSkipped ==
    /\ pc \in QueryLoops
    /\ Len(queue) > 0
    /\ Popped \in visited

\* get_impact_analysis is about to return from a node with a self-loop.
C30_WitnessSelfLoop ==
    /\ pc = "get_impact_analysis"
    /\ Len(queue) = 0
    /\ \E k \in 1..Len(edges) : edges[k].source = edges[k].target /\ edges[k].source \in visited

\* A subgraph with two edges was returned out of a graph with a cycle.
C30_WitnessReturned ==
    /\ QueryReturned
    /\ HasCycle
    /\ Len(reply[1][2].lineage.edges) = 2
    /\ Len(reply[1][2].lineage.nodes) < Len(nodes)

====
